---- MODULE Spec2Model ----
(***************************************************************************)
(* A model of the pf8 crate of pfs-rs: the PF6/PF8 header codec, the key   *)
(* derivation and XOR cipher, the Pf8Writer state machine, the Pf8Builder  *)
(* and the Pf8Reader.                                                      *)
(*                                                                         *)
(* Bytes are integers in 0..255.  Offsets into byte buffers are 0-based,   *)
(* as in the source; a buffer is a TLA+ sequence, so byte k of a buffer d  *)
(* is d[k + 1].  A Rust Option is a sequence of length at most one:        *)
(* <<>> is None and <<v>> is Some(v).                                      *)
(***************************************************************************)
EXTENDS Integers, Sequences, FiniteSets, Bags, TLC

VARIABLES
    writer,     \* the Pf8Writer object and the file it writes (writer.rs:13-24)
    last,       \* the last call made on the writer and what it returned
    builder,    \* the Pf8Builder object and the source files it names
    archive,    \* the archive file on disk: << >> while there is none
    reader,     \* the Pf8Reader object (reader.rs:20-31) or the error of open
    call,       \* the last call made on the builder, the codec or the reader
    kept,       \* what the client has kept of an archive packed earlier
    disk        \* the paths that exist in the directories the tool writes to

vars == <<writer, last, builder, archive, reader, call, kept, disk>>

----------------------------------------------------------------------------
(* Byte encodings.  Every length, count and offset of the model is far     *)
(* below 2^31, so the u32 and usize arithmetic of the source is exact here *)
(* and its casts change nothing.                                           *)

Min(a, b) == IF a < b THEN a ELSE b

\* The four bytes of a number, the most significant first
U32BE(n) ==
    << (n \div 16777216) % 256, (n \div 65536) % 256, (n \div 256) % 256, n % 256 >>

\* u32::to_le_bytes
U32LE(n) ==
    << n % 256, (n \div 256) % 256, (n \div 65536) % 256, (n \div 16777216) % 256 >>

\* u64::to_le_bytes of a value below 2^32 (every value the writer encodes is
\* a header length)
U64LE(n) == U32LE(n) \o << 0, 0, 0, 0 >>

\* data[from..to] of Rust: the bytes at 0-based positions from .. to-1
Slice(data, from, to) == SubSeq(data, from + 1, to)

RECURSIVE Flatten(_)
Flatten(ss) == IF ss = << >> THEN << >> ELSE Head(ss) \o Flatten(Tail(ss))

----------------------------------------------------------------------------
(* format.rs: constants and low-level parsing.                             *)

PF6_MAGIC == << 112, 102, 54 >>
PF8_MAGIC == << 112, 102, 56 >>

OFF_INDEX_SIZE == 3
OFF_INDEX_COUNT == 7
ENTRIES_START == 11
INDEX_DATA_START == 7
\* The offset table measured from the first entry record (0x0B)
FILESIZE_OFFSETS_FROM_ENTRIES == ENTRIES_START

\* offsets::FILESIZE_OFFSETS_START: "offset from faddr 0xf" (writer.rs:101,
\* format.rs:14), the literal 0xF of make_pf8_archive (lib.rs:206)
FILESIZE_OFFSETS_START == 15

\* A validate_magic that takes anything starting with "pf" and not ending
\* in '6' for PF8
validate_magic_loose(data) ==
    IF Len(data) < 3 THEN "InvalidFormat"
    ELSE IF Slice(data, 0, 3) = PF6_MAGIC THEN "Pf6"
    ELSE IF Slice(data, 0, 2) = << 112, 102 >> THEN "Pf8"
    ELSE "InvalidFormat"

\* validate_magic: "Pf6", "Pf8", or the error "InvalidFormat"
validate_magic(data) ==
    IF Len(data) < 3 THEN "InvalidFormat"
    ELSE IF Slice(data, 0, 3) = PF6_MAGIC THEN "Pf6"
    ELSE IF Slice(data, 0, 3) = PF8_MAGIC THEN "Pf8"
    ELSE "InvalidFormat"

\* read_u32_le: [ok, v]; ok is FALSE for the error InvalidFormat
read_u32_le(data, offset) ==
    IF offset + 4 > Len(data) THEN [ok |-> FALSE, v |-> 0]
    ELSE [ok |-> TRUE,
          v  |-> data[offset + 1] + 256 * data[offset + 2]
                 + 65536 * data[offset + 3] + 16777216 * data[offset + 4]]

\* get_index_size
get_index_size(data) ==
    IF validate_magic(data) = "InvalidFormat" THEN [ok |-> FALSE, v |-> 0]
    ELSE read_u32_le(data, OFF_INDEX_SIZE)

----------------------------------------------------------------------------
(* crypto.rs: key derivation and the XOR cipher.                           *)

\* The model's scale: the digest length (20 bytes for SHA-1) and the
\* streaming buffer (4 MiB) are scaled down so that payloads of a few bytes
\* wrap around the key and span several chunks.
KeyLen == 3
BUFFER_SIZE == 2

\* The sum over the bytes of (position + j) * (byte + 1), taken as the size
\* of the bag that holds each position that many times
WeightedSum(bytes, j) ==
    BagCardinality([i \in 1..Len(bytes) |-> (i + j) * (bytes[i] + 1)])

\* Sha1::new().update(bytes).finalize(): a fixed function from byte strings
\* to digests of KeyLen bytes
Sha1(bytes) == [j \in 1..KeyLen |-> (WeightedSum(bytes, j) + 7 * j) % 256]

\* generate_key
generate_key(data, index_size) ==
    LET start == INDEX_DATA_START
        end   == start + index_size
    IN  IF end > Len(data)
        THEN Sha1(Slice(data, start, Len(data)))
        ELSE Sha1(Slice(data, start, end))

RECURSIVE XorBits(_, _, _)
XorBits(a, b, n) ==
    IF n = 0 THEN 0
    ELSE ((a + b) % 2) + 2 * XorBits(a \div 2, b \div 2, n - 1)

\* a ^ b on u8
Xor(a, b) == XorBits(a, b, 8)

\* encrypt(data, key, local_offset): data[i] ^= key[(local_offset + i) % key.len()]
encrypt(data, key, local_offset) ==
    [i \in 1..Len(data) |-> Xor(data[i], key[((local_offset + i - 1) % Len(key)) + 1])]

\* decrypt(data, key): byte ^ key[i % key.len()]
decrypt(data, key) ==
    [i \in 1..Len(data) |-> Xor(data[i], key[((i - 1) % Len(key)) + 1])]

----------------------------------------------------------------------------
(* utils.rs: path conversion and pattern matching.  A path handed to the   *)
(* builder is a sequence of components (non-empty byte strings without a   *)
(* '/'); a PathBuf held by an entry is its string, the bytes with '/'      *)
(* between the components.                                                 *)

BACKSLASH == 92
SLASH == 47
DOT == 46

RECURSIVE Join(_, _)
Join(parts, sep) ==
    IF parts = << >> THEN << >>
    ELSE IF Len(parts) = 1 THEN parts[1]
    ELSE parts[1] \o << sep >> \o Join(Tail(parts), sep)

\* str::split(sep): the pieces between the separators, empty pieces kept
RECURSIVE Split(_, _, _)
Split(s, sep, cur) ==
    IF s = << >> THEN << cur >>
    ELSE IF Head(s) = sep THEN << cur >> \o Split(Tail(s), sep, << >>)
    ELSE Split(Tail(s), sep, Append(cur, Head(s)))

\* PathBuf::push on Unix: an absolute component replaces the path, any other
\* is appended after a '/' unless the path is empty or already ends in one
PathPush(buf, comp) ==
    IF comp # << >> /\ comp[1] = SLASH THEN comp
    ELSE IF buf # << >> /\ buf[Len(buf)] # SLASH THEN buf \o << SLASH >> \o comp
    ELSE buf \o comp

RECURSIVE PathCollect(_, _)
PathCollect(parts, buf) ==
    IF parts = << >> THEN buf
    ELSE PathCollect(Tail(parts), PathPush(buf, Head(parts)))

\* pf8_path_to_pathbuf: pf8_path.split('\\').collect()
pf8_path_to_pathbuf(pf8_path) == PathCollect(Split(pf8_path, BACKSLASH, << >>), << >>)

\* pathbuf_to_pf8_path: the components joined by a backslash
pathbuf_to_pf8_path(path) == Join(path, BACKSLASH)

\* The string of a PathBuf made of the given components
PathString(path) == Join(path, SLASH)

\* str::starts_with, str::ends_with, str::contains
StartsWith(s, p) == Len(p) <= Len(s) /\ SubSeq(s, 1, Len(p)) = p
EndsWith(s, p) == Len(p) <= Len(s) /\ SubSeq(s, Len(s) - Len(p) + 1, Len(s)) = p
Contains(s, p) == \E i \in 0..(Len(s) - Len(p)) : SubSeq(s, i + 1, i + Len(p)) = p

\* matches_any_pattern
matches_any_pattern(path, patterns) ==
    \E k \in 1..Len(patterns) :
        LET pattern == patterns[k]
        IN  IF StartsWith(pattern, << DOT >>)
            THEN EndsWith(path, pattern)
            ELSE path = pattern \/ Contains(path, pattern)

----------------------------------------------------------------------------
(* entry.rs: Pf8Entry.  raw is the RawEntry (name, offset, size).          *)

\* str::trim_end_matches('\0')
RECURSIVE TrimEndNul(_)
TrimEndNul(s) ==
    IF s # << >> /\ s[Len(s)] = 0 THEN TrimEndNul(SubSeq(s, 1, Len(s) - 1)) ELSE s

\* An entry classified by the patterns whatever the format is
from_raw_any_format(raw, unencrypted_patterns, format) ==
    [ name      |-> raw.name,
      offset    |-> raw.offset,
      size      |-> raw.size,
      path      |-> pf8_path_to_pathbuf(TrimEndNul(raw.name)),
      encrypted |-> ~matches_any_pattern(raw.name, unencrypted_patterns) ]

\* Pf8Entry::from_raw_with_format
from_raw_with_format(raw, unencrypted_patterns, format) ==
    [ name      |-> raw.name,
      offset    |-> raw.offset,
      size      |-> raw.size,
      path      |-> pf8_path_to_pathbuf(TrimEndNul(raw.name)),
      encrypted |-> IF format = "Pf6" THEN FALSE
                    ELSE ~matches_any_pattern(raw.name, unencrypted_patterns) ]

\* Pf8Entry::new
NewEntry(path, offset, size, unencrypted_patterns) ==
    LET pf8_name == pathbuf_to_pf8_path(path)
    IN  [ name      |-> pf8_name,
          offset    |-> offset,
          size      |-> size,
          path      |-> PathString(path),
          encrypted |-> ~matches_any_pattern(pf8_name, unencrypted_patterns) ]

----------------------------------------------------------------------------
(* writer.rs: Pf8Writer.                                                   *)

\* Pf8Writer::create
NewWriter ==
    [ output         |-> << >>,
      header_data    |-> << >>,
      state          |-> "Created",
      data_start_pos |-> 0,
      encryption_key |-> << >> ]

\* fileentry_size of write_header: the sum of name length + 16 over the entries
RECURSIVE FileEntrySize(_)
FileEntrySize(entries) ==
    IF entries = << >> THEN 0
    ELSE Len(Head(entries).name) + 16 + FileEntrySize(Tail(entries))

\* An index_size that leaves out the offset table's end marker
IndexSizeOf_NoSentinel(entries) ==
    4 + FileEntrySize(entries) + 4 + Len(entries) * 8 + 4

\* index_size of write_header
IndexSizeOf(entries) ==
    4 + FileEntrySize(entries) + 4 + (Len(entries) + 1) * 8 + 4

\* The loop over the entries in write_header: acc is [hd, file_offset,
\* filesize_offsets] and each step appends one entry record.
RECURSIVE WriteEntryRecords(_, _)
WriteEntryRecords(entries, acc) ==
    IF entries = << >> THEN acc
    ELSE LET entry == Head(entries)
             hd    == acc.hd \o U32LE(Len(entry.name)) \o entry.name
                        \o << 0, 0, 0, 0 >> \o U32LE(acc.file_offset) \o U32LE(entry.size)
         IN  WriteEntryRecords(Tail(entries),
                 [ hd               |-> hd,
                   file_offset      |-> acc.file_offset + entry.size,
                   filesize_offsets |-> Append(acc.filesize_offsets,
                                               Len(hd) - 4 - FILESIZE_OFFSETS_START) ])

\* The header bytes built by write_header
BuildHeader(entries) ==
    LET index_count == Len(entries)
        index_size  == IndexSizeOf(entries)
        start == PF8_MAGIC \o U32LE(index_size) \o U32LE(index_count)
        recs  == WriteEntryRecords(entries,
                    [ hd               |-> start,
                      file_offset      |-> index_size + INDEX_DATA_START,
                      filesize_offsets |-> << >> ])
        withCount == recs.hd \o U32LE(index_count + 1)
        filesize_count_offset == Len(withCount) - 4 - INDEX_DATA_START
        table == Flatten([i \in 1..Len(recs.filesize_offsets) |->
                              U64LE(recs.filesize_offsets[i])])
    IN  withCount \o table \o << 0, 0, 0, 0, 0, 0, 0, 0 >> \o U32LE(filesize_count_offset)

\* A write_header that caches no key
WriteHeaderBody_NoKey(w, entries) ==
    LET header_data == BuildHeader(entries)
        output      == w.output \o header_data
    IN  [ w |-> [ w EXCEPT !.header_data    = header_data,
                           !.output         = output,
                           !.data_start_pos = Len(output),
                           !.state          = "HeaderWritten" ],
          res |-> "Ok" ]

\* Pf8Writer::write_header after its state check (writer.rs:59-135)
WriteHeaderBody(w, entries) ==
    LET header_data == BuildHeader(entries)
        output      == w.output \o header_data
        index_size  == get_index_size(header_data)
    IN  [ w |-> [ w EXCEPT !.header_data    = header_data,
                           !.output         = output,
                           !.data_start_pos = Len(output),
                           !.encryption_key =
                               << generate_key(header_data, index_size.v) >>,
                           !.state          = "HeaderWritten" ],
          res |-> "Ok" ]

\* A write_header that does not check the state
write_header_unchecked(w, entries) == WriteHeaderBody(w, entries)

\* Pf8Writer::write_header
write_header(w, entries) ==
    IF w.state # "Created" THEN [w |-> w, res |-> "InvalidFormat"]
    ELSE WriteHeaderBody(w, entries)

\* Pf8Writer::write_file_data_direct
write_file_data_direct(w, entry, data) ==
    IF w.state = "Created" THEN [w |-> w, res |-> "InvalidFormat"]
    ELSE IF w.state = "Finalized" THEN [w |-> w, res |-> "InvalidFormat"]
    ELSE IF Len(data) # entry.size THEN [w |-> w, res |-> "InvalidFormat"]
    ELSE [ w   |-> [w EXCEPT !.output = w.output \o data, !.state = "WritingData"],
           res |-> "Ok" ]

\* The streaming loop of write_file_data: chunks of BUFFER_SIZE bytes are
\* read from the source, masked from the entry-local offset and written;
\* read_exact fails (ok = FALSE) when the source has fewer bytes than the
\* chunk asks for, and what was written before stays written.
\* A chunk masked from offset 0 whatever was written of the entry before it
MaskChunk_FromZero(chunk, keyopt, use_encryption, total_written) ==
    IF use_encryption /\ keyopt # << >> THEN encrypt(chunk, keyopt[1], 0) ELSE chunk

\* The masking of one chunk in the streaming loop (writer.rs:226-232)
MaskChunk(chunk, keyopt, use_encryption, total_written) ==
    IF use_encryption /\ keyopt # << >>
    THEN encrypt(chunk, keyopt[1], total_written)
    ELSE chunk

RECURSIVE WriteChunks(_, _, _, _, _, _)
WriteChunks(out, src, keyopt, use_encryption, expected_size, total_written) ==
    IF ~(total_written < expected_size)
    THEN [out |-> out, ok |-> TRUE, total_written |-> total_written]
    ELSE LET remaining  == expected_size - total_written
             chunk_size == Min(BUFFER_SIZE, remaining)
         IN  IF Len(src) < total_written + chunk_size
             THEN [out |-> out, ok |-> FALSE, total_written |-> total_written]
             ELSE LET chunk  == Slice(src, total_written, total_written + chunk_size)
                      masked == MaskChunk(chunk, keyopt, use_encryption, total_written)
                  IN  WriteChunks(out \o masked, src, keyopt, use_encryption,
                                  expected_size, total_written + chunk_size)

\* A write that leaves a zero byte after the payload
WriteFileDataBody_Padded(w, entry, source) ==
    IF source = << >> THEN [w |-> w, res |-> "Io"]
    ELSE IF Len(source[1]) < entry.size THEN [w |-> w, res |-> "Io"]
    ELSE LET data   == Slice(source[1], 0, entry.size)
             masked == IF entry.encrypted /\ w.encryption_key # << >>
                       THEN encrypt(data, w.encryption_key[1], 0)
                       ELSE data
         IN  [ w   |-> [w EXCEPT !.output = w.output \o masked \o << 0 >>,
                                 !.state  = "WritingData"],
               res |-> "Ok" ]

\* Pf8Writer::write_file_data after its state checks (writer.rs:192-248).
\* source is the Option of the source file's contents: << >> when the file
\* cannot be opened.
WriteFileDataBody(w, entry, source) ==
    IF source = << >> THEN [w |-> w, res |-> "Io"]
    ELSE LET src            == source[1]
             expected_size  == entry.size
             use_encryption == entry.encrypted
         IN  IF expected_size <= BUFFER_SIZE
             THEN IF Len(src) < expected_size THEN [w |-> w, res |-> "Io"]
                  ELSE LET data   == Slice(src, 0, expected_size)
                           masked == IF use_encryption /\ w.encryption_key # << >>
                                     THEN encrypt(data, w.encryption_key[1], 0)
                                     ELSE data
                       IN  [ w   |-> [w EXCEPT !.output = w.output \o masked,
                                               !.state  = "WritingData"],
                             res |-> "Ok" ]
             ELSE LET r == WriteChunks(w.output, src, w.encryption_key, use_encryption,
                                       expected_size, 0)
                  IN  IF ~r.ok THEN [w |-> [w EXCEPT !.output = r.out], res |-> "Io"]
                      ELSE IF r.total_written # expected_size
                      THEN [w |-> [w EXCEPT !.output = r.out], res |-> "InvalidFormat"]
                      ELSE [ w   |-> [w EXCEPT !.output = r.out, !.state = "WritingData"],
                             res |-> "Ok" ]

\* A write_file_data that does not reject a finalized writer
write_file_data_after_final(w, entry, source) ==
    IF w.state = "Created" THEN [w |-> w, res |-> "InvalidFormat"]
    ELSE WriteFileDataBody(w, entry, source)

\* Pf8Writer::write_file_data
write_file_data(w, entry, source) ==
    IF w.state = "Created" THEN [w |-> w, res |-> "InvalidFormat"]
    ELSE IF w.state = "Finalized" THEN [w |-> w, res |-> "InvalidFormat"]
    ELSE WriteFileDataBody(w, entry, source)

\* A finalize that rejects a writer already finalized
finalize_once(w) ==
    IF w.state \in {"Created", "Finalized"} THEN [w |-> w, res |-> "InvalidFormat"]
    ELSE [w |-> [w EXCEPT !.state = "Finalized"], res |-> "Ok"]

\* A finalize that derives the key again, from everything written after
\* the magic and index_size
finalize_rekey(w) ==
    IF w.state = "Finalized" THEN [w |-> w, res |-> "Ok"]
    ELSE IF w.state = "Created" THEN [w |-> w, res |-> "InvalidFormat"]
    ELSE [w |-> [w EXCEPT !.state = "Finalized",
                          !.encryption_key =
                              << Sha1(Slice(w.output, INDEX_DATA_START, Len(w.output))) >>],
          res |-> "Ok"]

\* Pf8Writer::finalize
finalize(w) ==
    IF w.state = "Finalized" THEN [w |-> w, res |-> "Ok"]
    ELSE IF w.state = "Created" THEN [w |-> w, res |-> "InvalidFormat"]
    ELSE [w |-> [w EXCEPT !.state = "Finalized"], res |-> "Ok"]

----------------------------------------------------------------------------
(* format.rs: parse_entries.                                               *)

\* String::from_utf8 on the names of the model, which are ASCII or hold the
\* byte 0xFF, a byte no UTF-8 text contains
Utf8Valid(bytes) == \A k \in 1..Len(bytes) : bytes[k] < 128

\* The loop of parse_entries.  The result is [res, entries, hi]: res is "Ok"
\* when the loop ends and "InvalidUtf8" or "InvalidFormat" when a ? returns
\* early; hi is the end of the highest byte range the loop has read.
\* A record counted as complete as soon as its name fits in the buffer
RecordFits_NameOnly(data, cursor, name_length) == ~(cursor + name_length > Len(data))

\* The check made after a name_length is read, cursor being the position
\* after it: the name, the 4 zero bytes, the offset and the size lie inside
\* the buffer
RecordFits(data, cursor, name_length) == ~(cursor + name_length + 12 > Len(data))

RECURSIVE ParseLoop(_, _, _, _, _, _)
ParseLoop(data, cursor, file_entries, index_count, index_end_pos, hi) ==
    IF ~(cursor < index_end_pos /\ Len(file_entries) < index_count)
    THEN [res |-> "Ok", entries |-> file_entries, hi |-> hi]
    ELSE IF cursor + 4 > Len(data)
    THEN [res |-> "Ok", entries |-> file_entries, hi |-> hi]
    ELSE LET name_length == read_u32_le(data, cursor).v
             c1          == cursor + 4
         IN  IF ~RecordFits(data, c1, name_length)
             THEN [res |-> "Ok", entries |-> file_entries, hi |-> c1]
             ELSE LET name_bytes == Slice(data, c1, c1 + name_length)
                      c2         == c1 + name_length + 4
                      offset     == read_u32_le(data, c2)
                      size       == read_u32_le(data, c2 + 4)
                  IN  IF ~Utf8Valid(name_bytes)
                      THEN [res |-> "InvalidUtf8", entries |-> file_entries,
                            hi |-> c1 + name_length]
                      ELSE IF ~offset.ok \/ ~size.ok
                      THEN [res |-> "InvalidFormat", entries |-> file_entries,
                            hi |-> c1 + name_length]
                      ELSE ParseLoop(data, c2 + 8,
                               Append(file_entries,
                                      [name |-> name_bytes, offset |-> offset.v,
                                       size |-> size.v]),
                               index_count, index_end_pos, c2 + 8)

\* parse_entries: [res, entries, format, hi]
parse_entries(data) ==
    LET format == validate_magic(data)
        none   == [res |-> "InvalidFormat", entries |-> << >>, format |-> format, hi |-> 0]
    IN  IF format = "InvalidFormat" THEN none
        ELSE IF Len(data) < 11 THEN [none EXCEPT !.hi = 3]
        ELSE LET index_size    == read_u32_le(data, OFF_INDEX_SIZE).v
                 index_count   == read_u32_le(data, OFF_INDEX_COUNT).v
                 index_end_pos == Min(INDEX_DATA_START + index_size, Len(data))
                 r == ParseLoop(data, ENTRIES_START, << >>, index_count,
                                index_end_pos, 11)
             IN  IF r.res # "Ok"
                 THEN [res |-> r.res, entries |-> << >>, format |-> format, hi |-> r.hi]
                 ELSE IF Len(r.entries) # index_count
                 THEN [res |-> "Corrupted", entries |-> << >>, format |-> format,
                       hi |-> r.hi]
                 ELSE [res |-> "Ok", entries |-> r.entries, format |-> format,
                       hi |-> r.hi]

----------------------------------------------------------------------------
(* reader.rs: Pf8Reader.  file is the archive file's bytes.                *)

\* Pf8Entry::read: [res, data], from the whole archive held in memory
read(entry, archive_data, encryption_key) ==
    LET start == entry.offset
        end   == start + entry.size
    IN  IF end > Len(archive_data) THEN [res |-> "Corrupted", data |-> << >>]
        ELSE LET data == Slice(archive_data, start, end)
             IN  IF entry.encrypted
                 THEN IF encryption_key # << >>
                      THEN [res |-> "Ok", data |-> decrypt(data, encryption_key[1])]
                      ELSE [res |-> "Crypto", data |-> << >>]
                 ELSE [res |-> "Ok", data |-> data]

NoReader ==
    [ res |-> "None", file |-> << >>, entries |-> << >>, encryption_key |-> << >>,
      format |-> "None" ]

\* An entry_map that answers a path it does not hold with the first entry
EntryMapGet_OrFirst(entries, path_string) ==
    LET hits == { i \in 1..Len(entries) : entries[i].path = path_string }
    IN  IF hits = { } THEN Min(1, Len(entries))
        ELSE CHOOSE i \in hits : \A j \in hits : j <= i

\* The entry_map of the reader: each path string maps to the last index
\* inserted under it (HashMap::insert in index order)
EntryMapGet(entries, path_string) ==
    LET hits == { i \in 1..Len(entries) : entries[i].path = path_string }
    IN  IF hits = { } THEN 0
        ELSE CHOOSE i \in hits : \A j \in hits : j <= i

\* Pf8Reader::open_with_unencrypted_patterns: the reader, with res "Ok", or
\* the error in res
open_with_unencrypted_patterns(file, unencrypted_patterns) ==
    IF Len(file) < 11 THEN [NoReader EXCEPT !.res = "Io"]
    ELSE LET header_buffer == Slice(file, 0, 11)
         IN  IF validate_magic(header_buffer) = "InvalidFormat"
             THEN [NoReader EXCEPT !.res = "InvalidFormat"]
             ELSE LET index_size       == read_u32_le(header_buffer, OFF_INDEX_SIZE).v
                      total_index_size == INDEX_DATA_START + index_size
                  IN  IF Len(file) < total_index_size
                      THEN [NoReader EXCEPT !.res = "Io"]
                      ELSE LET index_buffer == Slice(file, 0, total_index_size)
                               parsed       == parse_entries(index_buffer)
                           IN  IF parsed.res # "Ok"
                               THEN [NoReader EXCEPT !.res = parsed.res]
                               ELSE [ res    |-> "Ok",
                                      file   |-> file,
                                      entries |->
                                          [i \in 1..Len(parsed.entries) |->
                                              from_raw_with_format(parsed.entries[i],
                                                  unencrypted_patterns, parsed.format)],
                                      encryption_key |->
                                          IF parsed.format = "Pf8"
                                          THEN << generate_key(index_buffer, index_size) >>
                                          ELSE << >>,
                                      format |-> parsed.format ]

\* The streaming loop of read_file_streaming: chunks of BUFFER_SIZE bytes
\* are read, unmasked from the entry-local offset and handed to the
\* callback, which fails on its fail_at-th invocation (never when 0).
RECURSIVE ReadChunks(_, _, _, _, _, _)
ReadChunks(rd, pos, is_encrypted, file_size, fail_at, acc) ==
    LET bytes_read == acc.bytes_read
    IN  IF ~(bytes_read < file_size) THEN [res |-> "Ok", chunks |-> acc.chunks, reads |-> Len(acc.chunks)]
        ELSE LET chunk_size == Min(file_size - bytes_read, BUFFER_SIZE)
                 from       == pos + bytes_read
             IN  IF Len(rd.file) < from + chunk_size
                 THEN [res |-> "Io", chunks |-> acc.chunks,
                       reads |-> Len(acc.chunks) + 1]
                 ELSE IF is_encrypted /\ rd.encryption_key = << >>
                 THEN [res |-> "Crypto", chunks |-> acc.chunks,
                       reads |-> Len(acc.chunks) + 1]
                 ELSE LET raw   == Slice(rd.file, from, from + chunk_size)
                          key   == rd.encryption_key[1]
                          chunk == IF is_encrypted
                                   THEN [i \in 1..chunk_size |->
                                            Xor(raw[i],
                                                key[((bytes_read + i - 1) % Len(key)) + 1])]
                                   ELSE raw
                          chunks == Append(acc.chunks, chunk)
                      IN  IF Len(chunks) = fail_at
                          THEN [res |-> "Callback", chunks |-> chunks,
                                reads |-> Len(chunks)]
                          ELSE ReadChunks(rd, pos, is_encrypted, file_size, fail_at,
                                          [bytes_read |-> bytes_read + chunk_size,
                                           chunks     |-> chunks])

\* An is_encrypted that is true of every open reader
reader_is_encrypted_when_open(rd) == rd.res = "Ok"

\* Pf8Reader::is_encrypted
reader_is_encrypted(rd) == rd.encryption_key # << >>

\* Pf8Reader::get_entry: the Option of the entry
get_entry(rd, path_string) ==
    LET index == EntryMapGet(rd.entries, path_string)
    IN  IF index = 0 THEN << >> ELSE << rd.entries[index] >>

\* Pf8Reader::contains
contains(rd, path_string) == get_entry(rd, path_string) # << >>

\* A streaming read that hands the whole payload to the callback at once
read_file_streaming_whole(rd, path_string, fail_at) ==
    LET index == EntryMapGet(rd.entries, path_string)
    IN  IF index = 0
        THEN [res |-> "FileNotFound", chunks |-> << >>, seeks |-> 0, reads |-> 0]
        ELSE LET r == read(rd.entries[index], rd.file, rd.encryption_key)
             IN  IF r.res # "Ok"
                 THEN [res |-> r.res, chunks |-> << >>, seeks |-> 1, reads |-> 1]
                 ELSE [res |-> IF fail_at = 1 THEN "Callback" ELSE "Ok",
                       chunks |-> << r.data >>, seeks |-> 1, reads |-> 1]

\* read_exact of no byte succeeds wherever the file is positioned, so an
\* entry of size 0 is read whatever its offset.
\* Pf8Reader::read_file_streaming: [res, chunks, seeks, reads], chunks being
\* the slices the callback was invoked with, seeks and reads the calls of
\* seek and of read_exact on the archive file
read_file_streaming(rd, path_string, fail_at) ==
    LET index == EntryMapGet(rd.entries, path_string)
    IN  IF index = 0
        THEN [res |-> "FileNotFound", chunks |-> << >>, seeks |-> 0, reads |-> 0]
        ELSE LET entry        == rd.entries[index]
                 file_size    == entry.size
                 start_offset == entry.offset
                 is_encrypted == entry.encrypted
             IN  IF file_size <= BUFFER_SIZE
                 THEN IF file_size > 0 /\ Len(rd.file) < start_offset + file_size
                      THEN [res |-> "Io", chunks |-> << >>, seeks |-> 1, reads |-> 1]
                      ELSE IF is_encrypted /\ rd.encryption_key = << >>
                      THEN [res |-> "Crypto", chunks |-> << >>, seeks |-> 1, reads |-> 1]
                      ELSE LET raw  == Slice(rd.file, start_offset, start_offset + file_size)
                               key  == rd.encryption_key[1]
                               data == IF is_encrypted
                                       THEN [i \in 1..file_size |->
                                                Xor(raw[i], key[((i - 1) % Len(key)) + 1])]
                                       ELSE raw
                           IN  [res |-> IF fail_at = 1 THEN "Callback" ELSE "Ok",
                                chunks |-> << data >>, seeks |-> 1, reads |-> 1]
                 ELSE LET r == ReadChunks(rd, start_offset, is_encrypted, file_size,
                                          fail_at, [bytes_read |-> 0, chunks |-> << >>])
                      IN  [res |-> r.res, chunks |-> r.chunks, seeks |-> 1,
                           reads |-> r.reads]

\* Pf8Reader::read_file: [res, data]
read_file(rd, path_string) ==
    LET r == read_file_streaming(rd, path_string, 0)
    IN  IF r.res = "Ok" THEN [res |-> "Ok", data |-> Flatten(r.chunks)]
        ELSE [res |-> r.res, data |-> << >>]

\* Pf8Reader::extract_entry_with_progress under the NoOpHandler: the same
\* two paths as read_file_streaming, each chunk written to the output file;
\* [res, data], data being what the output file holds afterwards
extract_entry_with_progress(rd, entry) ==
    LET file_size == entry.size
        r == IF file_size <= BUFFER_SIZE
             THEN IF file_size > 0 /\ Len(rd.file) < entry.offset + file_size
                  THEN [res |-> "Io", chunks |-> << >>]
                  ELSE IF entry.encrypted /\ rd.encryption_key = << >>
                  THEN [res |-> "Crypto", chunks |-> << >>]
                  ELSE LET raw == Slice(rd.file, entry.offset, entry.offset + file_size)
                           key == rd.encryption_key[1]
                       IN  [res |-> "Ok",
                            chunks |-> << IF entry.encrypted
                                          THEN [i \in 1..file_size |->
                                                   Xor(raw[i], key[((i - 1) % Len(key)) + 1])]
                                          ELSE raw >>]
             ELSE ReadChunks(rd, entry.offset, entry.encrypted, file_size, 0,
                             [bytes_read |-> 0, chunks |-> << >>])
    IN  [res |-> r.res, data |-> Flatten(r.chunks)]

\* The output directory of an extraction: the files it holds, by their path
\* below the directory, and the directories created in it
EmptyDir == [files |-> << >>, dirs |-> { }]

\* The proper prefixes of a path: the directories create_dir_all makes
ParentDirs(path_string) ==
    LET comps == Split(path_string, SLASH, << >>)
    IN  { Join(SubSeq(comps, 1, k), SLASH) : k \in 1..(Len(comps) - 1) }

\* The loop of extract_all_with_progress under the NoOpHandler, from entry
\* index on: create_dir_all fails when a parent is a file, File::create
\* when the path is a directory, and an error ends the loop with the files
\* written so far left in place
RECURSIVE ExtractFrom(_, _, _)
ExtractFrom(rd, index, dir) ==
    IF index > Len(rd.entries) THEN [res |-> "Ok", dir |-> dir]
    ELSE LET entry   == rd.entries[index]
             parents == ParentDirs(entry.path)
             dirs    == dir.dirs \cup parents
         IN  IF parents \cap DOMAIN dir.files # { }
             THEN [res |-> "Io", dir |-> dir]
             ELSE IF entry.path \in dirs
             THEN [res |-> "Io", dir |-> [dir EXCEPT !.dirs = dirs]]
             ELSE LET r     == extract_entry_with_progress(rd, entry)
                      files == [p \in DOMAIN dir.files \cup {entry.path} |->
                                   IF p = entry.path THEN r.data ELSE dir.files[p]]
                  IN  IF r.res # "Ok"
                      THEN [res |-> r.res, dir |-> [files |-> files, dirs |-> dirs]]
                      ELSE ExtractFrom(rd, index + 1, [files |-> files, dirs |-> dirs])

\* Pf8Reader::extract_all into an empty directory
extract_all(rd) == ExtractFrom(rd, 1, EmptyDir)

----------------------------------------------------------------------------
(* callbacks.rs: ArchiveHandler.  A handler is the number of the hook       *)
(* invocation from which it returns Abort (0: it never does).  A run is     *)
(* [calls, events, dir, res]: the hook invocations so far, the hook         *)
(* invocations and the file operations in the order they happened, the     *)
(* output directory, and the result once the operation has returned.       *)

\* The one value of a set { e : x \in {v} }: e, with x the value of the step v
\* of an operation
The(S) == CHOOSE x \in S : TRUE

\* self.entries.iter().map(|e| e.size() as u64).sum()
RECURSIVE SumEntrySizes(_)
SumEntrySizes(entries) ==
    IF entries = << >> THEN 0 ELSE Head(entries).size + SumEntrySizes(Tail(entries))

\* A run of an operation under a handler: the number of hook invocations,
\* the hooks and file operations in order, the output directory, the result,
\* and total_bytes_processed
NewRun ==
    [calls |-> 0, events |-> << >>, dir |-> EmptyDir, res |-> "Running", processed |-> 0]

\* A hook of the handler is invoked with an argument: the entry name, or the
\* ProgressInfo
HookArg(run, name, index, arg) ==
    [run EXCEPT !.calls  = @ + 1,
                !.events = Append(@, [kind |-> "hook", name |-> name,
                                      entry |-> index, bytes |-> 0, arg |-> arg])]

\* A hook invoked without an argument the model keeps
Hook(run, name, index) == HookArg(run, name, index, << >>)

\* A ProgressInfo that counts the bytes of the current file only
ProgressInfo_PerFile(rd, entry, processed_files, total_bytes_processed, current_file_bytes) ==
    [ processed_bytes |-> current_file_bytes,
      total_bytes     |-> SumEntrySizes(rd.entries),
      processed_files |-> processed_files,
      total_files     |-> Len(rd.entries),
      current_file    |-> entry.path ]

\* The ProgressInfo of extract_entry_with_progress (reader.rs:372-378, 408-414)
ProgressInfo(rd, entry, processed_files, total_bytes_processed, current_file_bytes) ==
    [ processed_bytes |-> total_bytes_processed + current_file_bytes,
      total_bytes     |-> SumEntrySizes(rd.entries),
      processed_files |-> processed_files,
      total_files     |-> Len(rd.entries),
      current_file    |-> entry.path ]

\* An Abort that takes effect one invocation late
Aborted_Late(run, abort_from) == abort_from > 0 /\ run.calls > abort_from

\* The hook just invoked returned ControlAction::Abort
Aborted(run, abort_from) == abort_from > 0 /\ run.calls >= abort_from

\* A file operation on the output: File::create, or write_all of a chunk
FileOp(run, kind, index, path, data) ==
    [run EXCEPT !.events = Append(@, [kind |-> kind, name |-> path,
                                      entry |-> index, bytes |-> Len(data),
                                      arg |-> << >>]),
                !.dir.files =
                    [p \in DOMAIN @ \cup {path} |->
                        IF p # path THEN @[p]
                        ELSE IF kind = "create" THEN << >>
                        ELSE IF p \in DOMAIN @ THEN @[p] \o data
                        ELSE data]]

Returned(run, res) == [run EXCEPT !.res = res]

\* An on_finished whose Abort cancels the operation
Finished_Checked(run, abort_from) ==
    IF Aborted(Hook(run, "on_finished", 0), abort_from)
    THEN Returned(Hook(run, "on_finished", 0), "Cancelled")
    ELSE Returned(Hook(run, "on_finished", 0), "Ok")

\* handler.on_finished(); Ok(()): what on_finished returns is dropped
Finished(run, abort_from) == Returned(Hook(run, "on_finished", 0), "Ok")

\* The streaming loop of extract_entry_with_progress (reader.rs:384-419)
RECURSIVE ExtractChunks(_, _, _, _, _, _)
ExtractChunks(rd, entry, index, abort_from, run, bytes_written) ==
    IF ~(bytes_written < entry.size) THEN Returned(run, "Ok")
    ELSE LET chunk_size == Min(entry.size - bytes_written, BUFFER_SIZE)
             from       == entry.offset + bytes_written
         IN  IF Len(rd.file) < from + chunk_size THEN Returned(run, "Io")
             ELSE IF entry.encrypted /\ rd.encryption_key = << >>
             THEN Returned(run, "Crypto")
             ELSE LET raw   == Slice(rd.file, from, from + chunk_size)
                      key   == rd.encryption_key[1]
                      chunk == IF entry.encrypted
                               THEN [i \in 1..chunk_size |->
                                        Xor(raw[i],
                                            key[((bytes_written + i - 1) % Len(key)) + 1])]
                               ELSE raw
                      r1    == FileOp(run, "chunk", index, entry.path, chunk)
                      r2    == HookArg(r1, "on_progress", index,
                                   ProgressInfo(rd, entry, index, run.processed,
                                                bytes_written + chunk_size))
                  IN  IF Aborted(r2, abort_from) THEN Returned(r2, "Cancelled")
                      ELSE ExtractChunks(rd, entry, index, abort_from, r2,
                                         bytes_written + chunk_size)

\* An extraction of an entry that reports no progress
ExtractEntry_NoProgress(rd, entry, index, abort_from, run) ==
    LET r0 == FileOp(run, "create", index, entry.path, << >>)
        r  == read(entry, rd.file, rd.encryption_key)
    IN  IF r.res # "Ok" THEN Returned(r0, r.res)
        ELSE Returned(FileOp(r0, "chunk", index, entry.path, r.data), "Ok")

\* Pf8Reader::extract_entry_with_progress with a handler (reader.rs:324-423)
ExtractEntry(rd, entry, index, abort_from, run) ==
    IF entry.path \in run.dir.dirs THEN Returned(run, "Io")
    ELSE LET r0 == FileOp(run, "create", index, entry.path, << >>)
         IN  IF entry.size <= BUFFER_SIZE
             THEN IF entry.size > 0 /\ Len(rd.file) < entry.offset + entry.size
                  THEN Returned(r0, "Io")
                  ELSE IF entry.encrypted /\ rd.encryption_key = << >>
                  THEN Returned(r0, "Crypto")
                  ELSE LET raw  == Slice(rd.file, entry.offset, entry.offset + entry.size)
                           key  == rd.encryption_key[1]
                           data == IF entry.encrypted
                                   THEN [i \in 1..entry.size |->
                                            Xor(raw[i], key[((i - 1) % Len(key)) + 1])]
                                   ELSE raw
                           r1   == FileOp(r0, "chunk", index, entry.path, data)
                           r2   == HookArg(r1, "on_progress", index,
                                       ProgressInfo(rd, entry, index, run.processed,
                                                    entry.size))
                       IN  IF Aborted(r2, abort_from) THEN Returned(r2, "Cancelled")
                           ELSE Returned(r2, "Ok")
             ELSE ExtractChunks(rd, entry, index, abort_from, r0, 0)

\* The loop over the entries in extract_all_with_progress (reader.rs:226-259)
RECURSIVE ExtractEntries(_, _, _, _)
ExtractEntries(rd, index, abort_from, run) ==
    IF index > Len(rd.entries)
    THEN Finished(run, abort_from)
    ELSE LET entry   == rd.entries[index]
             r1      == HookArg(run, "on_entry_started", index, entry.path)
             parents == ParentDirs(entry.path)
             r2      == [r1 EXCEPT !.dir.dirs = @ \cup parents]
         IN  IF Aborted(r1, abort_from) THEN Returned(r1, "Cancelled")
             ELSE IF parents \cap DOMAIN r1.dir.files # { } THEN Returned(r1, "Io")
             ELSE LET r3 == ExtractEntry(rd, entry, index, abort_from, r2)
                      r4 == HookArg([r3 EXCEPT !.res = "Running",
                                               !.processed = @ + entry.size],
                                    "on_entry_finished", index, entry.path)
                  IN  IF r3.res # "Ok" THEN r3
                      ELSE IF Aborted(r4, abort_from) THEN Returned(r4, "Cancelled")
                      ELSE ExtractEntries(rd, index + 1, abort_from, r4)

\* Pf8Reader::extract_all_with_progress into an empty directory
extract_all_with_progress(rd, abort_from) ==
    LET r1 == Hook(NewRun, "on_started", 0)
    IN  IF Aborted(r1, abort_from) THEN Returned(r1, "Cancelled")
        ELSE ExtractEntries(rd, 1, abort_from, r1)

----------------------------------------------------------------------------
(* builder.rs: Pf8Builder.  A file of the builder is [source, archive_path]: *)
(* source is the Option of what its source file holds now (<< >> when the  *)
(* file is gone) and archive_path is a sequence of path components.        *)

\* constants.rs: UNENCRYPTED_FILTER = ["mp4", "flv"]
UNENCRYPTED_FILTER == << <<109, 112, 52>>, <<102, 108, 118>> >>

\* Pf8Builder::new
NewBuilder == [files |-> << >>, unencrypted_patterns |-> << >>]

\* Pf8Builder::unencrypted_extensions
unencrypted_extensions(b, patterns) == [b EXCEPT !.unencrypted_patterns = patterns]

\* The pattern list entries are materialized with: the configured list, or
\* UNENCRYPTED_FILTER when none is configured
MaterialPatterns(b) ==
    IF b.unencrypted_patterns = << >> THEN UNENCRYPTED_FILTER ELSE b.unencrypted_patterns

\* Pf8Builder::add_file_as
add_file_as(b, source, archive_path) ==
    IF source = << >> THEN [b |-> b, res |-> "Io"]
    ELSE [b   |-> [b EXCEPT !.files = Append(b.files, [source       |-> source,
                                                      archive_path |-> archive_path])],
          res |-> "Ok"]

\* add_file_as for each file of a list, in the order of the list
RECURSIVE AddAll(_, _)
AddAll(b, files) ==
    IF files = << >> THEN b
    ELSE AddAll(add_file_as(b, Head(files).source, Head(files).archive_path).b, Tail(files))

\* Ord on byte strings: -1, 0 or 1
RECURSIVE BytesCmp(_, _)
BytesCmp(a, b) ==
    IF a = << >> /\ b = << >> THEN 0
    ELSE IF a = << >> THEN -1
    ELSE IF b = << >> THEN 1
    ELSE IF Head(a) < Head(b) THEN -1
    ELSE IF Head(a) > Head(b) THEN 1
    ELSE BytesCmp(Tail(a), Tail(b))

\* Ord on Path: the components compared in order
RECURSIVE PathCmp(_, _)
PathCmp(p, q) ==
    IF p = << >> /\ q = << >> THEN 0
    ELSE IF p = << >> THEN -1
    ELSE IF q = << >> THEN 1
    ELSE LET c == BytesCmp(Head(p), Head(q))
         IN  IF c # 0 THEN c ELSE PathCmp(Tail(p), Tail(q))

\* A step that puts index i in front, whatever the paths are
InsertIndex_Front(files, sorted, i) == << i >> \o sorted

\* One step of the stable sort: index i goes after every index whose path
\* is not greater
InsertIndex(files, sorted, i) ==
    LET keep == { k \in 1..Len(sorted) :
                    PathCmp(files[sorted[k]].archive_path, files[i].archive_path) <= 0 }
        n    == Cardinality(keep)
    IN  SubSeq(sorted, 1, n) \o << i >> \o SubSeq(sorted, n + 1, Len(sorted))

RECURSIVE SortFrom(_, _, _)
SortFrom(files, sorted, i) ==
    IF i > Len(files) THEN sorted
    ELSE SortFrom(files, InsertIndex(files, sorted, i), i + 1)

\* Indices left in the order the files were added
sorted_indices_as_added(b) == [i \in 1..Len(b.files) |-> i]

\* Pf8Builder::sorted_indices: the indices in the order of a stable sort by
\* archive path
sorted_indices(b) == SortFrom(b.files, << >>, 1)

\* The loop of write_to_writer that builds the entries: [res, entries,
\* sources]; fs::metadata fails on a source that is gone
RECURSIVE BuildEntries(_, _, _)
BuildEntries(b, indices, acc) ==
    IF indices = << >> THEN acc
    ELSE LET file == b.files[Head(indices)]
         IN  IF file.source = << >> THEN [acc EXCEPT !.res = "Io"]
             ELSE LET size  == Len(file.source[1])
                      entry == NewEntry(file.archive_path, acc.total_data_size, size,
                                        MaterialPatterns(b))
                  IN  BuildEntries(b, Tail(indices),
                          [ res             |-> "Ok",
                            entries         |-> Append(acc.entries, entry),
                            sources         |-> Append(acc.sources, file.source),
                            total_data_size |-> acc.total_data_size + size ])

\* The loop of write_to_writer that writes the data of each entry
RECURSIVE WriteAllData(_, _, _)
WriteAllData(w, entries, sources) ==
    IF entries = << >> THEN [w |-> w, res |-> "Ok"]
    ELSE LET r == write_file_data(w, Head(entries), Head(sources))
         IN  IF r.res # "Ok" THEN r
             ELSE WriteAllData(r.w, Tail(entries), Tail(sources))

\* Pf8Builder::write_to_writer
write_to_writer(b, w) ==
    IF b.files = << >> THEN [w |-> w, res |-> "InvalidFormat"]
    ELSE LET built == BuildEntries(b, sorted_indices(b),
                          [res |-> "Ok", entries |-> << >>, sources |-> << >>,
                           total_data_size |-> 0])
         IN  IF built.res # "Ok" THEN [w |-> w, res |-> built.res]
             ELSE LET h == write_header(w, built.entries)
                  IN  IF h.res # "Ok" THEN h
                      ELSE LET d == WriteAllData(h.w, built.entries, built.sources)
                           IN  IF d.res # "Ok" THEN d ELSE finalize(d.w)

\* Pf8Builder::write_to_file: the writer it created and used, and the result
write_to_file(b) == write_to_writer(b, NewWriter)

\* The write_all calls one write_file_data made, from what it appended: one
\* for an entry of at most a buffer, else one for each buffer-sized chunk
RECURSIVE ChunksWritten(_, _, _, _)
ChunksWritten(run, index, path, data) ==
    IF Len(data) <= BUFFER_SIZE
    THEN FileOp(run, "chunk", index, path, data)
    ELSE ChunksWritten(FileOp(run, "chunk", index, path, Slice(data, 0, BUFFER_SIZE)),
                       index, path, Slice(data, BUFFER_SIZE, Len(data)))

\* The loop of write_to_writer_with_progress over the entries
\* (builder.rs:293-305): the output file is the one file of the run
RECURSIVE WriteAllDataWithProgress(_, _, _, _, _, _)
WriteAllDataWithProgress(w, entries, sources, index, abort_from, run) ==
    IF index > Len(entries) THEN [w |-> w, res |-> "Ok", run |-> run]
    ELSE The({
         IF Aborted(r1, abort_from)
         THEN [w |-> w, res |-> "Cancelled", run |-> Returned(r1, "Cancelled")]
         ELSE The({
              LET appended == Slice(d.w.output, Len(w.output), Len(d.w.output))
                  r2 == IF d.res # "Ok" /\ appended = << >> THEN r1
                        ELSE ChunksWritten(r1, index, << >>, appended)
              IN  IF d.res # "Ok"
                  THEN [w |-> d.w, res |-> d.res, run |-> Returned(r2, d.res)]
                  ELSE The({
                       IF Aborted(r3, abort_from)
                       THEN [w |-> d.w, res |-> "Cancelled",
                             run |-> Returned(r3, "Cancelled")]
                       ELSE WriteAllDataWithProgress(d.w, entries, sources, index + 1,
                                                     abort_from, r3)
                       : r3 \in { HookArg(r2, "on_entry_finished", index,
                                         entries[index].path) } })
              : d \in { write_file_data(w, entries[index], sources[index]) } })
         : r1 \in { HookArg(run, "on_entry_started", index,
                              entries[index].path) } })

\* Pf8Builder::write_to_writer_with_progress after its check of the file
\* list (builder.rs:257-310)
WriteToWriterBody(b, w, abort_from) ==
         LET r1 == Hook(NewRun, "on_started", 0)
         IN  IF Aborted(r1, abort_from)
             THEN [w |-> w, res |-> "Cancelled", run |-> Returned(r1, "Cancelled")]
             ELSE The({
                  IF built.res # "Ok"
                  THEN [w |-> w, res |-> built.res, run |-> Returned(r1, built.res)]
                  ELSE The({
                       IF h.res # "Ok"
                       THEN [w |-> h.w, res |-> h.res, run |-> Returned(r1, h.res)]
                       ELSE The({
                            IF d.res # "Ok" THEN d
                            ELSE The({
                                 IF f.res # "Ok"
                                 THEN [w |-> f.w, res |-> f.res,
                                       run |-> Returned(d.run, f.res)]
                                 ELSE [w |-> f.w,
                                       res |-> Finished(d.run, abort_from).res,
                                       run |-> Finished(d.run, abort_from)]
                                 : f \in { finalize(d.w) } })
                            : d \in { WriteAllDataWithProgress(h.w, built.entries,
                                          built.sources, 1, abort_from, r1) } })
                       : h \in { write_header(w, built.entries) } })
                  : built \in { BuildEntries(b, sorted_indices(b),
                                    [res |-> "Ok", entries |-> << >>, sources |-> << >>,
                                     total_data_size |-> 0]) } })

\* A write_to_writer_with_progress that packs an empty file list
write_to_writer_unchecked(b, w, abort_from) == WriteToWriterBody(b, w, abort_from)

\* Pf8Builder::write_to_writer_with_progress
write_to_writer_with_progress(b, w, abort_from) ==
    IF b.files = << >>
    THEN [w |-> w, res |-> "InvalidFormat", run |-> Returned(NewRun, "InvalidFormat")]
    ELSE WriteToWriterBody(b, w, abort_from)

\* Pf8Builder::write_to_file_with_progress
write_to_file_with_progress(b, abort_from) ==
    write_to_writer_with_progress(b, NewWriter, abort_from)

----------------------------------------------------------------------------
(* The writer driven by arbitrary calls.  last records the call just made: *)
(* its name, its result, the state it was made in and, for a call that     *)
(* succeeded, its arguments.                                               *)

MaxEntries == 2
MaxData == 3

RECURSIVE SeqsUpTo(_, _)
SeqsUpTo(S, n) ==
    IF n = 0 THEN { << >> }
    ELSE LET shorter == SeqsUpTo(S, n - 1)
         IN  shorter \cup { Append(s, x) : s \in { t \in shorter : Len(t) = n - 1 }, x \in S }

\* The archive paths "a" and "d/b.x", classified against the pattern list
\* [".x"]: the first is encrypted, the second is not
WriterPaths == { << <<97>> >>, << <<100>>, <<98, 46, 120>> >> }
WriterPatterns == << <<46, 120>> >>

\* The entries of a header: "a" with 0 and with 3 bytes, "d/b.x" with 1 byte
HeaderEntries ==
    { NewEntry(<< <<97>> >>, 0, 0, WriterPatterns),
      NewEntry(<< <<97>> >>, 0, 3, WriterPatterns),
      NewEntry(<< <<100>>, <<98, 46, 120>> >>, 0, 1, WriterPatterns) }
EntryLists == SeqsUpTo(HeaderEntries, MaxEntries)

\* The entries of a data write: the code reads only their size and their
\* encrypted flag
DataEntries ==
    { NewEntry(p, 0, n, WriterPatterns) : p \in WriterPaths, n \in {0, 1, 3} }

\* Source files: unopenable (<< >>), or holding one of these contents
SourceContents == { << >>, << 5, 6 >>, << 5, 6, 7 >> }
Sources == { << >> } \cup { << c >> : c \in SourceContents }

NoEntry == NewEntry(<< >>, 0, 0, << >>)

LastCall(op, res, entries, entry, source) ==
    IF res = "Ok"
    THEN [op |-> op, res |-> res, from |-> writer.state,
          entries |-> entries, entry |-> entry, source |-> source]
    ELSE [op |-> op, res |-> res, from |-> writer.state,
          entries |-> << >>, entry |-> NoEntry, source |-> << >>]

\* The data written after the header stays within MaxData bytes
DataRoom(entry) ==
    writer.state \in {"Created", "Finalized"}
    \/ Len(writer.output) - writer.data_start_pos + entry.size <= MaxData

\* The call record of the builder, the codec and the reader: the operation,
\* its result, its argument and what it returned
NoCall == [op |-> "none", res |-> "Ok", arg |-> << >>, data |-> << >>, hi |-> 0]

\* The variables the writer's own operations leave alone
client == <<builder, archive, reader, call, kept, disk>>

WriteHeader ==
    \E entries \in EntryLists :
        LET r == write_header(writer, entries)
        IN  /\ writer' = r.w
            /\ last' = LastCall("write_header", r.res, entries, NoEntry, << >>)
            /\ UNCHANGED client

WriteFileDataDirect ==
    \E entry \in DataEntries, data \in SourceContents :
        LET r == write_file_data_direct(writer, entry, data)
        IN  /\ DataRoom(entry)
            /\ writer' = r.w
            /\ last' = LastCall("write_file_data_direct", r.res, << >>, entry, << data >>)
            /\ UNCHANGED client

WriteFileData ==
    \E entry \in DataEntries, source \in Sources :
        LET r == write_file_data(writer, entry, source)
        IN  /\ DataRoom(entry)
            /\ writer' = r.w
            /\ last' = LastCall("write_file_data", r.res, << >>, entry, source)
            /\ UNCHANGED client

Finalize ==
    LET r == finalize(writer)
    IN  /\ writer' = r.w
        /\ last' = LastCall("finalize", r.res, << >>, NoEntry, << >>)
        /\ UNCHANGED client

Init ==
    /\ writer = NewWriter
    /\ last = LastCall("create", "Ok", << >>, NoEntry, << >>)
    /\ builder = NewBuilder
    /\ archive = << >>
    /\ reader = NoReader
    /\ call = NoCall
    /\ kept = << >>
    /\ disk = { }

Next == WriteHeader \/ WriteFileDataDirect \/ WriteFileData \/ Finalize

Spec == Init /\ [][Next]_vars

----------------------------------------------------------------------------
(* Claims about the writer state machine.                                  *)

DataOps == {"write_file_data", "write_file_data_direct"}

\* C1: the writer state only changes Created -> HeaderWritten by a successful
\* write_header, HeaderWritten|WritingData -> WritingData by a successful
\* data write and HeaderWritten|WritingData -> Finalized by finalize; once
\* Finalized, no call changes the state or appends to the output.
C1_WriterTransitions ==
    [][ /\ writer'.state # writer.state =>
             \/ /\ writer.state = "Created" /\ writer'.state = "HeaderWritten"
                /\ last'.op = "write_header" /\ last'.res = "Ok"
             \/ /\ writer.state = "HeaderWritten" /\ writer'.state = "WritingData"
                /\ last'.op \in DataOps /\ last'.res = "Ok"
             \/ /\ writer.state \in {"HeaderWritten", "WritingData"}
                /\ writer'.state = "Finalized"
                /\ last'.op = "finalize"
        /\ (last'.op \in DataOps /\ last'.res = "Ok") => writer'.state = "WritingData"
        /\ writer.state = "Finalized" =>
             writer'.state = "Finalized" /\ writer'.output = writer.output
      ]_vars

\* A data write was attempted on a finalized writer that had data written
C1_Witness ==
    /\ last.op \in DataOps /\ last.from = "Finalized"
    /\ writer.state = "Finalized"
    /\ Len(writer.output) > writer.data_start_pos

\* C2: a call made in a state where it is not legal returns InvalidFormat and
\* changes nothing of the writer; a write_header that succeeds is the first
\* thing written, so header bytes are emitted at most once.
C2_IllegalCallsRejected ==
    [][ /\ ( \/ last'.op = "write_header" /\ writer.state # "Created"
             \/ last'.op \in DataOps /\ writer.state \in {"Created", "Finalized"} )
           => last'.res = "InvalidFormat" /\ writer' = writer
        /\ (last'.op = "write_header" /\ last'.res = "Ok")
           => /\ writer.state = "Created" /\ writer.output = << >>
              /\ writer'.output = writer'.header_data
        /\ writer.state # "Created"
           => /\ writer'.header_data = writer.header_data
              /\ writer'.data_start_pos = writer.data_start_pos
              /\ SubSeq(writer'.output, 1, writer.data_start_pos) = writer.header_data
      ]_vars

\* write_header was called a second time, after data had been written
C2_Witness ==
    /\ last.op = "write_header" /\ last.from = "WritingData"
    /\ last.res = "InvalidFormat"
    /\ Len(writer.output) > writer.data_start_pos

\* C3: finalize succeeds from HeaderWritten and WritingData and moves to
\* Finalized, succeeds again without changing anything once Finalized, and
\* fails with InvalidFormat from Created, leaving the writer in Created.
C3_FinalizeIdempotent ==
    [][ last'.op = "finalize" =>
          /\ writer.state \in {"HeaderWritten", "WritingData"} =>
               /\ last'.res = "Ok"
               /\ writer' = [writer EXCEPT !.state = "Finalized"]
          /\ writer.state = "Finalized" => last'.res = "Ok" /\ writer' = writer
          /\ writer.state = "Created" => last'.res = "InvalidFormat" /\ writer' = writer
      ]_vars

\* finalize was called on a writer that was already finalized
C3_Witness ==
    last.op = "finalize" /\ last.from = "Finalized" /\ last.res = "Ok"

----------------------------------------------------------------------------
(* Claims about the header layout.  The layout is restated here from the   *)
(* format table, position by position, and compared with the bytes         *)
(* write_header produced.                                                  *)

LE32At(d, pos) ==
    d[pos + 1] + 256 * d[pos + 2] + 65536 * d[pos + 3] + 16777216 * d[pos + 4]

ZeroAt(d, from, to) == \A k \in (from + 1)..to : d[k] = 0

\* The sum over the first k entries of name length + 16, and of the sizes
RECURSIVE SumRecordSizes(_, _)
SumRecordSizes(es, k) ==
    IF k = 0 THEN 0 ELSE Len(es[k].name) + 16 + SumRecordSizes(es, k - 1)

RECURSIVE SumSizes(_, _)
SumSizes(es, k) == IF k = 0 THEN 0 ELSE es[k].size + SumSizes(es, k - 1)

LayoutIndexSize(es) == 4 + SumRecordSizes(es, Len(es)) + 4 + 8 * (Len(es) + 1) + 4

\* Absolute position of the i-th entry record, and of its size field
RecordPos(es, i) == 11 + SumRecordSizes(es, i - 1)
SizeFieldPos(es, i) == RecordPos(es, i) + 4 + Len(es[i].name) + 4 + 4

\* Absolute position of the filesize_count field
FilesizeCountPos(es) == 11 + SumRecordSizes(es, Len(es))

HeaderJustWritten == last.op = "write_header" /\ last.res = "Ok"

\* C6: write_header writes the magic 'pf8', index_size = 4 + sum(len(name_i)
\* + 16) + 4 + 8*(n+1) + 4 and index_count = n, and for each entry a record
\* with offset_i = index_size + 7 + the sizes of the entries before it and
\* size_i; the header is index_size + 7 bytes long and is all of the output,
\* so the first payload byte sits at index_size + 7.
C6_HeaderLayout ==
    HeaderJustWritten =>
        LET es == last.entries
            hd == writer.header_data
            n  == Len(es)
            index_size == LayoutIndexSize(es)
        IN  /\ Len(hd) = index_size + 7
            /\ writer.output = hd
            /\ writer.data_start_pos = index_size + 7
            /\ SubSeq(hd, 1, 3) = << 112, 102, 56 >>
            /\ LE32At(hd, 3) = index_size
            /\ LE32At(hd, 7) = n
            /\ \A i \in 1..n :
                 LET p == RecordPos(es, i)
                     l == Len(es[i].name)
                 IN  /\ LE32At(hd, p) = l
                     /\ SubSeq(hd, p + 5, p + 4 + l) = es[i].name
                     /\ ZeroAt(hd, p + 4 + l, p + 8 + l)
                     /\ LE32At(hd, p + 8 + l) = index_size + 7 + SumSizes(es, i - 1)
                     /\ LE32At(hd, p + 12 + l) = es[i].size

\* A header of two entries was written, the first of them not empty
C6_Witness ==
    /\ HeaderJustWritten
    /\ Len(last.entries) = 2
    /\ last.entries[1].size > 0
    /\ Len(last.entries[1].name) # Len(last.entries[2].name)

\* The offset table of the header just written: filesize_count = n + 1, then
\* for each entry the distance from absolute position base to its size field
\* as a u64, then eight zero bytes, then the position of the filesize_count
\* field relative to 0x07 as a u32, which ends the header.
OffsetTableFrom(base) ==
    LET es == last.entries
        hd == writer.header_data
        n  == Len(es)
        fc == FilesizeCountPos(es)
        tb == fc + 4
    IN  /\ LE32At(hd, fc) = n + 1
        /\ \A i \in 1..n :
             /\ LE32At(hd, tb + 8 * (i - 1)) = SizeFieldPos(es, i) - base
             /\ ZeroAt(hd, tb + 8 * (i - 1) + 4, tb + 8 * i)
        /\ ZeroAt(hd, tb + 8 * n, tb + 8 * n + 8)
        /\ LE32At(hd, tb + 8 * n + 8) = fc - 7
        /\ Len(hd) = tb + 8 * n + 12

\* C7 as stated: the i-th value of the offset table is the distance from
\* absolute position 0x0B (0x07 + 4) to the size field of the i-th record.
C7_OffsetTableFrom0B == HeaderJustWritten => OffsetTableFrom(11)

\* C7, amended: the i-th value of the offset table is the distance from
\* absolute position 0x0F to the size field of the i-th entry record; the
\* table has index_count + 1 u64 values, the last being eight zero bytes,
\* and the trailing u32 is the position of the filesize_count field relative
\* to 0x07.
C7_OffsetTableFrom0F == HeaderJustWritten => OffsetTableFrom(15)

\* A header of two entries with names of different lengths was written
C7_Witness ==
    /\ HeaderJustWritten
    /\ Len(last.entries) = 2
    /\ Len(last.entries[1].name) > Len(last.entries[2].name)

----------------------------------------------------------------------------
(* The codec and the reader applied to archive images: headers the writer  *)
(* builds, followed by their payload, whole or damaged in one place.       *)

MaxRecords == 2

\* Raw names: "a", "b.x", "a.xy", "d\c", "b.x" with a NUL after it, and a
\* name that is not UTF-8
RawNames ==
    { <<97>>, <<98, 46, 120>>, <<97, 46, 120, 121>>, <<100, 92, 99>>,
      <<98, 46, 120, 0>>, <<255>> }

\* An entry of one payload byte as write_header takes it
RawFile(name) ==
    [name |-> name, offset |-> 0, size |-> 1, path |-> name, encrypted |-> TRUE]

RecordLists == SeqsUpTo({ RawFile(n) : n \in RawNames }, MaxRecords)

\* The archive the writer makes of a list, every payload byte being 7
Image(list) == BuildHeader(list) \o [k \in 1..Len(list) |-> 7]

SetBytes(data, pos, bytes) ==
    SubSeq(data, 1, pos) \o bytes \o SubSeq(data, pos + Len(bytes) + 1, Len(data))

\* An image, and the image damaged in one place: another magic, another
\* index_size or index_count, a huge first name_length, or cut short
Damaged(list) ==
    LET img == Image(list)
        n   == Len(list)
    IN  { img, SetBytes(img, 0, PF6_MAGIC), SetBytes(img, 0, <<112, 102, 55>>) }
        \cup { SetBytes(img, OFF_INDEX_SIZE, U32LE(v)) :
                 v \in {5, 22, IndexSizeOf(list) + n + 1} }
        \cup { SetBytes(img, OFF_INDEX_COUNT, U32LE(c)) : c \in {0, n + 1} }
        \cup { SetBytes(img, ENTRIES_START, U32LE(16777216)) }
        \cup { SubSeq(img, 1, t) : t \in {10, 11, 13, 16, Len(img) - 1} }

\* Files too short to hold a header: nothing, "pf", "pf6", "pf8", "xyz", and
\* ten bytes that start with "pf7"
ShortInputs ==
    { << >>, << 112, 102 >>, PF6_MAGIC, PF8_MAGIC, << 120, 121, 122 >>,
      << 112, 102, 55, 20, 0, 0, 0, 0, 0, 0 >> }

ParseInputs == ShortInputs \cup UNION { Damaged(list) : list \in RecordLists }

\* Pattern lists: none, [".x"], ["x"], ["d/c", "b.x"] and the default
OpenPatterns ==
    { << >>, << <<46, 120>> >>, << <<120>> >>, << <<100, 47, 99>>, <<98, 46, 120>> >>,
      UNENCRYPTED_FILTER }

ValidateMagic ==
    LET r == validate_magic(archive[1])
    IN  /\ call' = [op |-> "validate_magic",
                    res |-> IF r = "InvalidFormat" THEN r ELSE "Ok",
                    arg |-> << >>, data |-> r, hi |-> 0]
        /\ UNCHANGED <<writer, last, builder, archive, reader, kept, disk>>

ParseEntries ==
    LET r == parse_entries(archive[1])
    IN  /\ call' = [op |-> "parse_entries", res |-> r.res, arg |-> << >>,
                    data |-> r.entries, hi |-> r.hi]
        /\ UNCHANGED <<writer, last, builder, archive, reader, kept, disk>>

Open ==
    \E patterns \in OpenPatterns :
        LET r == open_with_unencrypted_patterns(archive[1], patterns)
        IN  /\ reader' = r
            /\ call' = [op |-> "open", res |-> r.res, arg |-> patterns,
                        data |-> << >>, hi |-> 0]
            /\ UNCHANGED <<writer, last, builder, archive, kept, disk>>

InitParse ==
    /\ archive \in { << img >> : img \in ParseInputs }
    /\ writer = NewWriter
    /\ last = LastCall("create", "Ok", << >>, NoEntry, << >>)
    /\ builder = NewBuilder
    /\ reader = NoReader
    /\ call = NoCall
    /\ kept = << >>
    /\ disk = { }

NextParse == ValidateMagic \/ ParseEntries \/ Open

SpecParse == InitParse /\ [][NextParse]_vars

----------------------------------------------------------------------------
(* Claims about classification and parsing.                                *)

\* A name ends with a pattern, and a name holds a pattern somewhere
NameEndsWith(name, pat) == \E q \in { SubSeq(name, 1, k) : k \in 0..Len(name) } : name = q \o pat
NameHolds(name, pat) ==
    \E i \in 0..Len(name), j \in 0..Len(name) :
        i <= j /\ name = SubSeq(name, 1, i) \o pat \o SubSeq(name, j + 1, Len(name))

PatternMatches(pat, name) ==
    IF pat # << >> /\ pat[1] = 46 THEN NameEndsWith(name, pat) ELSE NameHolds(name, pat)

JustOpened == call.op = "open" /\ call.res = "Ok"

\* C8: every entry of an opened PF6 archive is unencrypted whatever the
\* patterns are; an entry of an opened PF8 archive is unencrypted exactly when
\* some configured pattern matches its raw name (a pattern starting with '.'
\* when the name ends with it, any other when the name equals or contains
\* it), and is encrypted otherwise.
C8_Classification ==
    JustOpened =>
        \A i \in 1..Len(reader.entries) :
            LET e == reader.entries[i]
            IN  /\ reader.format = "Pf6" => ~e.encrypted
                /\ reader.format = "Pf8" =>
                       (~e.encrypted <=>
                            \E k \in 1..Len(call.arg) : PatternMatches(call.arg[k], e.name))

\* A PF6 archive opened with a pattern that matches one of its names, or a
\* PF8 archive holding an entry a dot pattern matches and one it occurs in
\* without matching
C8_Witness ==
    /\ JustOpened
    /\ \/ /\ reader.format = "Pf6"
          /\ \E i \in 1..Len(reader.entries), k \in 1..Len(call.arg) :
                 PatternMatches(call.arg[k], reader.entries[i].name)
       \/ /\ reader.format = "Pf8"
          /\ \E i \in 1..Len(reader.entries), j \in 1..Len(reader.entries) :
                 /\ ~reader.entries[i].encrypted
                 /\ reader.entries[j].encrypted
                 /\ call.arg = << <<46, 120>> >>
                 /\ NameHolds(reader.entries[j].name, <<46, 120>>)

\* The end of the k-th record of a buffer, walking from 0x0B, or 0 when the
\* first k records do not all lie inside the buffer
RECURSIVE RecordEnd(_, _)
RecordEnd(d, k) ==
    IF k = 0 THEN 11
    ELSE LET start == RecordEnd(d, k - 1)
         IN  IF start = 0 \/ start + 4 > Len(d) THEN 0
             ELSE IF start + 4 + LE32At(d, start) + 12 > Len(d) THEN 0
             ELSE start + 4 + LE32At(d, start) + 12

RecordName(d, k) ==
    SubSeq(d, RecordEnd(d, k - 1) + 5, RecordEnd(d, k - 1) + 4 + LE32At(d, RecordEnd(d, k - 1)))

\* The buffers the claim is about: 11 bytes or more, a PF6 or PF8 magic, and
\* ASCII names in the records the count announces
ParseInput(d) ==
    /\ Len(d) >= 11
    /\ SubSeq(d, 1, 3) \in {PF6_MAGIC, PF8_MAGIC}
    /\ \A k \in 1..LE32At(d, 7) :
           RecordEnd(d, k) # 0 => \A b \in 1..Len(RecordName(d, k)) : RecordName(d, k)[b] < 128

JustParsed == call.op = "parse_entries" /\ ParseInput(archive[1])

DeclaredEnd(d) == 7 + LE32At(d, 3)

\* C10 as stated: parse_entries returns Ok exactly when index_count records
\* lie wholly inside the buffer and inside the declared index region, returns
\* Corrupted otherwise, and reads nothing outside the buffer.
C10_OkIffInsideRegion ==
    JustParsed =>
        LET d == archive[1]
        IN  /\ call.res = "Ok" <=>
                   \A k \in 1..LE32At(d, 7) :
                       RecordEnd(d, k) # 0 /\ RecordEnd(d, k) <= DeclaredEnd(d)
            /\ call.res \in {"Ok", "Corrupted"}
            /\ call.hi <= Len(d)

\* C10, amended: parse_entries returns Ok exactly when each of the
\* index_count records starts before the end of the declared index region
\* and lies wholly inside the buffer; otherwise it returns Corrupted; it
\* reads nothing outside the buffer, and the entries it returns are the
\* records in order.
C10_OkIffStartsInRegion ==
    JustParsed =>
        LET d == archive[1]
        IN  /\ call.res = "Ok" <=>
                   \A k \in 1..LE32At(d, 7) :
                       RecordEnd(d, k) # 0 /\ RecordEnd(d, k - 1) < DeclaredEnd(d)
            /\ call.res \in {"Ok", "Corrupted"}
            /\ call.hi <= Len(d)
            /\ call.res = "Ok" =>
                   /\ Len(call.data) = LE32At(d, 7)
                   /\ \A k \in 1..Len(call.data) : call.data[k].name = RecordName(d, k)

\* A buffer parsed to two entries, one cut short and answered Corrupted, and
\* one whose last record runs past the declared region
C10_Witness ==
    /\ JustParsed
    /\ \/ call.res = "Ok" /\ Len(call.data) = 2
       \/ call.res = "Corrupted" /\ Len(archive[1]) < DeclaredEnd(archive[1])

\* The first three bytes of a buffer are 'pf6', or are 'pf8'
HasMagic(d, digit) == Len(d) >= 3 /\ d[1] = 112 /\ d[2] = 102 /\ d[3] = digit

MagicValidated == call.op = "validate_magic"
OpenedWithoutMagic ==
    call.op = "open" /\ ~HasMagic(archive[1], 54) /\ ~HasMagic(archive[1], 56)

\* C11 as stated: validate_magic returns Pf6 exactly for buffers starting
\* with 'pf6', Pf8 exactly for those starting with 'pf8' and InvalidFormat
\* for every other buffer; opening a file that starts with neither fails
\* with InvalidFormat and yields no reader.
C11_BadMagicIsInvalidFormat ==
    /\ MagicValidated =>
           /\ call.data = "Pf6" <=> HasMagic(archive[1], 54)
           /\ call.data = "Pf8" <=> HasMagic(archive[1], 56)
           /\ call.data \in {"Pf6", "Pf8", "InvalidFormat"}
    /\ OpenedWithoutMagic => call.res = "InvalidFormat" /\ reader.res # "Ok"

\* C11, amended: validate_magic as stated; opening a file of 11 bytes or more
\* that starts with neither magic fails with InvalidFormat, opening a shorter
\* file fails with an I/O error whatever its first bytes are, and neither
\* yields a reader.
C11_BadMagicRejected ==
    /\ MagicValidated =>
           /\ call.data = "Pf6" <=> HasMagic(archive[1], 54)
           /\ call.data = "Pf8" <=> HasMagic(archive[1], 56)
           /\ call.data \in {"Pf6", "Pf8", "InvalidFormat"}
    /\ OpenedWithoutMagic =>
           /\ reader.res # "Ok" /\ reader.entries = << >>
           /\ Len(archive[1]) >= 11 => call.res = "InvalidFormat"
    /\ (call.op = "open" /\ Len(archive[1]) < 11) => call.res = "Io" /\ reader.res # "Ok"

\* A whole archive image whose magic was replaced, opened
C11_Witness ==
    /\ OpenedWithoutMagic
    /\ Len(archive[1]) > 11
    /\ call.res = "InvalidFormat"

----------------------------------------------------------------------------
(* Packing and reading back.  A client fills a builder, packs it into the  *)
(* archive file, opens the file with the builder's pattern list and reads  *)
(* from it; it may keep what it saw of the archive, after which the source *)
(* files change on disk and the same builder is packed and opened again.   *)

MaxFiles == 2

\* The archive paths "a", "d/b.x", "a/b", "a\b", a single component whose
\* name holds a backslash, and "a.b"
PackPaths ==
    { << <<97>> >>, << <<100>>, <<98, 46, 120>> >>, << <<97>>, <<98>> >>,
      << <<97, 92, 98>> >>, << <<97, 46, 98>> >> }

\* The files a client adds, as [content, archive_path]: a source file holds
\* nothing, one byte, or more than two buffers
PackFiles ==
    { [content |-> << >>,              archive_path |-> << <<97>> >>],
      [content |-> << 5, 6, 7, 8, 9 >>, archive_path |-> << <<97>> >>],
      [content |-> << 5 >>,            archive_path |-> << <<100>>, <<98, 46, 120>> >>],
      [content |-> << 5, 6, 7, 8, 9 >>, archive_path |-> << <<100>>, <<98, 46, 120>> >>],
      [content |-> << 4, 3, 2 >>,      archive_path |-> << <<97>>, <<98>> >>],
      [content |-> << 5 >>,            archive_path |-> << <<97, 92, 98>> >>] }

\* A file "a.b", which a client adds beside the directory "a"
FileBesideDir == [content |-> << 6 >>, archive_path |-> << <<97, 46, 98>> >>]

\* The pattern list a builder is configured with: [".x"]
PackPatterns == { << <<46, 120>> >> }

\* The paths asked of the reader: the packed ones as strings, and "z"
ReadPaths == { PathString(p) : p \in PackPaths } \cup { <<122>> }

\* The same file with every byte changed
Rewritten(content) == [k \in 1..Len(content) |-> 255 - content[k]]

UnencryptedExtensions ==
    \E patterns \in PackPatterns :
        /\ archive = << >>
        /\ builder' = unencrypted_extensions(builder, patterns)
        /\ UNCHANGED <<writer, last, archive, reader, call, kept, disk>>

AddFileAs ==
    \E file \in PackFiles :
        /\ archive = << >>
        /\ Len(builder.files) < MaxFiles
        /\ builder' = add_file_as(builder, << file.content >>, file.archive_path).b
        /\ UNCHANGED <<writer, last, archive, reader, call, kept, disk>>

AddFileBesideDir ==
    /\ archive = << >>
    /\ Len(builder.files) < MaxFiles
    /\ builder' = add_file_as(builder, << FileBesideDir.content >>,
                              FileBesideDir.archive_path).b
    /\ UNCHANGED <<writer, last, archive, reader, call, kept, disk>>

\* Pf8Builder::write_to_file: the file is created, then written by the
\* writer; a reader of the earlier file is dropped first
WriteToFile ==
    LET r == write_to_file(builder)
    IN  /\ writer' = r.w
        /\ archive' = << r.w.output >>
        /\ reader' = NoReader
        /\ call' = [op |-> "write_to_file", res |-> r.res, arg |-> << >>,
                    data |-> << >>, hi |-> 0]
        /\ UNCHANGED <<last, builder, kept, disk>>

OpenPacked ==
    /\ archive # << >>
    /\ LET r == open_with_unencrypted_patterns(archive[1], builder.unencrypted_patterns)
       IN  /\ reader' = r
           /\ call' = [op |-> "open", res |-> r.res, arg |-> builder.unencrypted_patterns,
                       data |-> << >>, hi |-> 0]
    /\ UNCHANGED <<writer, last, builder, archive, kept, disk>>

ReadFile ==
    \E path \in ReadPaths :
        /\ reader.res = "Ok"
        /\ kept = << >>
        /\ LET r == read_file(reader, path)
           IN  call' = [op |-> "read_file", res |-> r.res, arg |-> path,
                        data |-> r.data, hi |-> 0]
        /\ UNCHANGED <<writer, last, builder, archive, reader, kept, disk>>

\* The callbacks of a streaming read: the invocation at which the callback
\* returns an error; 0 is the callback that never does
Callbacks == 0..2

ReadFileStreaming ==
    \E path \in ReadPaths, fail_at \in Callbacks :
        /\ reader.res = "Ok"
        /\ call.op = "open"
        /\ kept = << >>
        /\ LET r == read_file_streaming(reader, path, fail_at)
           IN  call' = [op |-> "read_file_streaming", res |-> r.res, arg |-> path,
                        data |-> r, hi |-> fail_at]
        /\ UNCHANGED <<writer, last, builder, archive, reader, kept, disk>>

ExtractAll ==
    /\ reader.res = "Ok"
    /\ kept = << >>
    /\ LET r == extract_all(reader)
       IN  call' = [op |-> "extract_all", res |-> r.res, arg |-> << >>,
                    data |-> r.dir, hi |-> 0]
    /\ UNCHANGED <<writer, last, builder, archive, reader, kept, disk>>

\* The client keeps the archive just opened: its bytes, the files it was
\* packed from, the names and sizes it lists, and the keys the writer and the
\* reader derived
Keep ==
    /\ reader.res = "Ok"
    /\ call.op = "open"
    /\ kept = << >>
    /\ kept' = << [ file  |-> archive[1],
                    files |-> builder.files,
                    index |-> [i \in 1..Len(reader.entries) |->
                                  [name |-> reader.entries[i].name,
                                   size |-> reader.entries[i].size]],
                    wkey  |-> writer.encryption_key,
                    rkey  |-> reader.encryption_key ] >>
    /\ UNCHANGED <<writer, last, builder, archive, reader, call, disk>>

\* A source file is rewritten on disk with other bytes of the same length,
\* before the builder is packed again
RewriteSource ==
    \E i \in 1..Len(builder.files) :
        /\ kept # << >>
        /\ archive[1] = kept[1].file
        /\ [k \in 1..Len(builder.files) |-> builder.files[k].archive_path]
               = [k \in 1..Len(kept[1].files) |-> kept[1].files[k].archive_path]
        /\ builder.files[i].source[1] # << >>
        /\ builder' = [builder EXCEPT !.files[i].source =
                                          << Rewritten(builder.files[i].source[1]) >>]
        /\ UNCHANGED <<writer, last, archive, reader, call, kept, disk>>

\* The orders a list can be put in
Orders(n) == { f \in [1..n -> 1..n] : \A i \in 1..n, j \in 1..n : i # j => f[i] # f[j] }

\* A fresh builder is given the pattern list and the files of the earlier
\* one, added in another order
AddInAnotherOrder ==
    \E order \in Orders(Len(builder.files)) :
        /\ kept # << >>
        /\ builder.files = kept[1].files
        /\ order # [i \in 1..Len(builder.files) |-> i]
        /\ builder' = AddAll(unencrypted_extensions(NewBuilder, builder.unencrypted_patterns),
                             [i \in 1..Len(builder.files) |-> builder.files[order[i]]])
        /\ UNCHANGED <<writer, last, archive, reader, call, kept, disk>>

InitPack ==
    /\ builder = NewBuilder
    /\ writer = NewWriter
    /\ last = LastCall("create", "Ok", << >>, NoEntry, << >>)
    /\ archive = << >>
    /\ reader = NoReader
    /\ call = NoCall
    /\ kept = << >>
    /\ disk = { }

NextPack ==
    \/ UnencryptedExtensions \/ AddFileAs \/ AddFileBesideDir \/ WriteToFile
    \/ OpenPacked \/ ReadFile \/ ReadFileStreaming \/ ExtractAll \/ Keep
    \/ RewriteSource \/ AddInAnotherOrder

SpecPack == InitPack /\ [][NextPack]_vars

----------------------------------------------------------------------------
(* Claims about packing and reading back.                                  *)

\* The sources are the ones the archive was packed from
Fresh == kept = << >>

DistinctPaths(files) ==
    \A i \in 1..Len(files), j \in 1..Len(files) :
        i # j => files[i].archive_path # files[j].archive_path

PackedPathStrings == { PathString(builder.files[i].archive_path) : i \in 1..Len(builder.files) }

\* What reading back must give when the files of the builder round-trip:
\* the opened archive lists the packed paths, read_file of a packed path
\* gives the bytes of its source, and extract_all writes each source under
\* its path and nothing else
ReadsBackTheSources ==
    /\ call.op = "open" =>
           /\ call.res = "Ok"
           /\ Len(reader.entries) = Len(builder.files)
           /\ { reader.entries[i].path : i \in 1..Len(reader.entries) } = PackedPathStrings
    /\ call.op = "read_file" =>
           \A i \in 1..Len(builder.files) :
               call.arg = PathString(builder.files[i].archive_path) =>
                   call.res = "Ok" /\ call.data = builder.files[i].source[1]
    /\ call.op = "extract_all" =>
           /\ call.res = "Ok"
           /\ DOMAIN call.data.files = PackedPathStrings
           /\ \A i \in 1..Len(builder.files) :
                  call.data.files[PathString(builder.files[i].archive_path)]
                      = builder.files[i].source[1]

\* C4: files with distinct archive paths, packed with a pattern list and
\* opened with the same list, are listed under exactly the packed paths, and
\* read_file and extract_all give for every path the bytes of its source.
C4_RoundTrip ==
    (Fresh /\ builder.files # << >> /\ DistinctPaths(builder.files)) => ReadsBackTheSources

\* No component of a path holds a backslash, and no path is the directory
\* of another
PortablePaths(files) ==
    /\ \A i \in 1..Len(files) :
           \A c \in 1..Len(files[i].archive_path) :
               \A b \in 1..Len(files[i].archive_path[c]) :
                   files[i].archive_path[c][b] # 92
    /\ \A i \in 1..Len(files), j \in 1..Len(files) :
           LET p == files[i].archive_path
               q == files[j].archive_path
           IN  ~(Len(p) < Len(q) /\ SubSeq(q, 1, Len(p)) = p)

\* The round trip of C4 for paths that are portable
RoundTripOfPortablePaths ==
    (Fresh /\ builder.files # << >> /\ DistinctPaths(builder.files)
           /\ PortablePaths(builder.files)) => ReadsBackTheSources

\* A payload masked in one piece from offset 0
MaskWhole(payload, key) ==
    [k \in 1..Len(payload) |-> Xor(payload[k], key[((k - 1) % Len(key)) + 1])]

\* The k-th file in archive order, its entry and where its data starts
PackedFile(k) == builder.files[sorted_indices(builder)[k]]
PackedEntry(k) ==
    NewEntry(PackedFile(k).archive_path, 0, Len(PackedFile(k).source[1]),
             MaterialPatterns(builder))
RECURSIVE PackedOffset(_)
PackedOffset(k) ==
    IF k = 1 THEN writer.data_start_pos
    ELSE PackedOffset(k - 1) + Len(PackedFile(k - 1).source[1])

\* The entry read_file looked up
EntryRead == reader.entries[EntryMapGet(reader.entries, call.arg)]

PackedIndex ==
    [k \in 1..Len(builder.files) |->
        [name |-> pathbuf_to_pf8_path(PackedFile(k).archive_path),
         size |-> Len(PackedFile(k).source[1])]]

\* C9: the key is the digest of the index bytes [0x07, 0x07 + index_size) of
\* the archive; a writer given the names, sizes and order of an archive kept
\* earlier derives the key that archive's writer derived, whatever the
\* payloads are, and a reader opening either archive derives that key too.
C9_KeyDeterminism ==
    /\ writer.state = "Finalized" =>
           writer.encryption_key =
               << Sha1(SubSeq(archive[1], 8, 7 + LE32At(archive[1], 3))) >>
    /\ reader.res = "Ok" => reader.encryption_key = writer.encryption_key
    /\ (kept # << >> /\ writer.state = "Finalized" /\ PackedIndex = kept[1].index) =>
           /\ writer.encryption_key = kept[1].wkey
           /\ kept[1].rkey = kept[1].wkey
           /\ reader.res = "Ok" => reader.encryption_key = kept[1].rkey

\* An archive kept, then packed again from rewritten sources and opened: the
\* two files differ and the keys do not
C9_Witness ==
    /\ kept # << >>
    /\ reader.res = "Ok"
    /\ archive[1] # kept[1].file
    /\ PackedIndex = kept[1].index
    /\ reader.encryption_key = kept[1].rkey

\* Two lists hold the same files, each as many times
SameFiles(fs, gs) ==
    /\ Len(fs) = Len(gs)
    /\ \A i \in 1..Len(fs) :
           Cardinality({ k \in 1..Len(fs) : fs[k] = fs[i] })
               = Cardinality({ k \in 1..Len(gs) : gs[k] = fs[i] })

\* The builder was packed after the archive was kept
PackedAgain == kept # << >> /\ call.op = "write_to_file" /\ call.res = "Ok"

\* C12 as stated: a builder given the files of an earlier one in any other
\* order writes the archive the earlier one wrote, byte for byte.
C12_AnyOrderSameArchive ==
    (PackedAgain /\ SameFiles(builder.files, kept[1].files)) => archive[1] = kept[1].file

\* C12, amended: a builder given the files of an earlier one in any other
\* order writes the archive the earlier one wrote, byte for byte, when no two
\* of the files have the same archive path.
C12_AnyOrderSameArchiveDistinct ==
    (PackedAgain /\ SameFiles(builder.files, kept[1].files)
                 /\ DistinctPaths(builder.files)) => archive[1] = kept[1].file

\* Two files or more packed again after being added in another order
C12_Witness ==
    /\ PackedAgain
    /\ builder.files # kept[1].files
    /\ SameFiles(builder.files, kept[1].files)
    /\ DistinctPaths(builder.files)
    /\ sorted_indices(builder) # [i \in 1..Len(builder.files) |-> i]
    /\ archive[1] = kept[1].file


----------------------------------------------------------------------------
(* Packing and unpacking under a handler.  A client fills a builder, packs *)
(* it with a handler that returns Abort from some invocation on, opens     *)
(* whatever file that left, and extracts it under such a handler.          *)

\* The hook invocations of an operation over MaxFiles files of three chunks
MaxHookCalls == 12

\* The invocation from which the handler returns Abort; 0 is the handler
\* that always returns Continue
Handlers == 0..MaxHookCalls

WriteToFileWithProgress ==
    \E abort_from \in Handlers :
        /\ archive = << >>
        /\ LET r == write_to_file_with_progress(builder, abort_from)
           IN  /\ writer' = r.w
               /\ archive' = << r.w.output >>
               /\ call' = [op |-> "write_to_file_with_progress", res |-> r.res,
                           arg |-> abort_from, data |-> r.run, hi |-> 0]
        /\ reader' = NoReader
        /\ UNCHANGED <<last, builder, kept, disk>>

ExtractAllWithProgress ==
    \E abort_from \in Handlers :
        /\ reader.res = "Ok"
        /\ call.op = "open"
        /\ LET r == extract_all_with_progress(reader, abort_from)
           IN  call' = [op |-> "extract_all_with_progress", res |-> r.res,
                        arg |-> abort_from, data |-> r, hi |-> 0]
        /\ UNCHANGED <<writer, last, builder, archive, reader, kept, disk>>

\* Pf8Entry::read of a listed entry, on the archive file read into memory
ReadEntry ==
    \E index \in 1..Len(reader.entries) :
        /\ reader.res = "Ok"
        /\ call.op = "open"
        /\ LET r == read(reader.entries[index], reader.file, reader.encryption_key)
           IN  call' = [op |-> "read", res |-> r.res, arg |-> index,
                        data |-> r.data, hi |-> 0]
        /\ UNCHANGED <<writer, last, builder, archive, reader, kept, disk>>

\* The bytes a packed archive file loses at its end before it is opened
Truncations == {1, 3}

\* The archive file is cut short on disk
Truncate ==
    \E cut \in Truncations :
        /\ call.op \in {"write_to_file", "write_to_file_with_progress"}
        /\ call.res = "Ok"
        /\ archive' = << SubSeq(archive[1], 1, Len(archive[1]) - cut) >>
        /\ call' = [op |-> "truncate", res |-> "Ok", arg |-> cut, data |-> << >>,
                    hi |-> 0]
        /\ UNCHANGED <<writer, last, builder, reader, kept, disk>>

NextProgress ==
    \/ AddFileAs \/ WriteToFile \/ WriteToFileWithProgress \/ Truncate
    \/ OpenPacked \/ ExtractAllWithProgress
    \/ ReadFile \/ ReadFileStreaming \/ ReadEntry

SpecProgress == InitPack /\ [][NextProgress]_vars


----------------------------------------------------------------------------
(* Claims about handlers.                                                  *)

IsHook(event) == event.kind = "hook"

\* The hook invocations of a run, in order
HookEvents(run) == SelectSeq(run.events, IsHook)

\* The file operations of a run on behalf of the entry at an index
OpsOf(run, kind, index) ==
    { i \in 1..Len(run.events) :
        run.events[i].kind = kind /\ run.events[i].entry = index }

RECURSIVE SumBytes(_, _)
SumBytes(run, ops) ==
    IF ops = { } THEN 0
    ELSE LET i == CHOOSE x \in ops : TRUE
         IN  run.events[i].bytes + SumBytes(run, ops \ {i})

Extracted == call.op = "extract_all_with_progress"

\* The handler returned Abort from its k-th on_entry_started call
AbortedAtEntryStart(k) ==
    /\ Extracted
    /\ call.arg > 0
    /\ Len(HookEvents(call.data)) >= call.arg
    /\ HookEvents(call.data)[call.arg].name = "on_entry_started"
    /\ HookEvents(call.data)[call.arg].entry = k

\* What the reader yields for the entry at an index
ContentOf(index) == extract_entry_with_progress(reader, reader.entries[index]).data

\* The entry at j is the last of the first n entries with its path
LastWithPath(j, n) ==
    \A i \in (j + 1)..n : reader.entries[i].path # reader.entries[j].path

\* C13: when the handler returns Abort from its k-th on_entry_started call,
\* extract_all_with_progress returns Cancelled, the first k-1 entries have
\* been created and written in full, in index order, and nothing has been
\* created or written for the k-th entry or any later one: the output
\* directory holds the files of the first k-1 entries and no other.
C13_AbortAtEntryStart ==
    \A k \in 1..Len(reader.entries) :
        AbortedAtEntryStart(k) =>
            LET run == call.data
            IN  /\ call.res = "Cancelled"
                /\ run.events[Len(run.events)] = HookEvents(run)[call.arg]
                /\ \A j \in 1..(k - 1) :
                      /\ Cardinality(OpsOf(run, "create", j)) = 1
                      /\ SumBytes(run, OpsOf(run, "chunk", j)) = reader.entries[j].size
                      /\ \A i \in OpsOf(run, "chunk", j), c \in OpsOf(run, "create", j) :
                            c < i
                      /\ \A i \in OpsOf(run, "create", j) :
                            \A h \in OpsOf(run, "create", j + 1) : i < h
                      /\ LastWithPath(j, k - 1) =>
                            run.dir.files[reader.entries[j].path] = ContentOf(j)
                /\ \A j \in k..Len(reader.entries) :
                      OpsOf(run, "create", j) \cup OpsOf(run, "chunk", j) = { }
                /\ DOMAIN run.dir.files =
                      { reader.entries[j].path : j \in 1..(k - 1) }

\* The handler aborts at the second on_entry_started, after an entry of
\* three chunks has been extracted
C13_Witness ==
    /\ AbortedAtEntryStart(2)
    /\ reader.entries[1].size > 2 * BUFFER_SIZE
    /\ call.res = "Cancelled"
    /\ call.data.dir.files[reader.entries[1].path] = ContentOf(1)


Packed == call.op = "write_to_file_with_progress"

\* The hook at which the handler first returned Abort, if it was invoked
\* that often
AbortedAt(name) ==
    /\ Extracted \/ Packed
    /\ call.arg > 0
    /\ Len(HookEvents(call.data)) >= call.arg
    /\ HookEvents(call.data)[call.arg].name = name

\* What the same operation does under the handler that never aborts
Undisturbed ==
    IF Extracted THEN extract_all_with_progress(reader, 0)
    ELSE write_to_file_with_progress(builder, 0).run

\* C14: in extract_all_with_progress and write_to_writer_with_progress, when
\* on_started, on_entry_started, on_progress or on_entry_finished returns
\* Abort the operation returns Cancelled and that invocation is the last
\* thing the operation did: no hook, on_finished included, and no creation
\* or transfer of a chunk comes after it.  When on_finished is the first
\* hook to return Abort, the operation ends as it does under a handler that
\* never aborts: the same result, the same operations, the same output.
C14_AbortStopsAtOnce ==
    /\ \A name \in {"on_started", "on_entry_started", "on_progress", "on_entry_finished"} :
          AbortedAt(name) =>
              /\ call.res = "Cancelled"
              /\ call.data.res = "Cancelled"
              /\ call.data.events[Len(call.data.events)] = HookEvents(call.data)[call.arg]
              /\ Len(HookEvents(call.data)) = call.arg
    /\ AbortedAt("on_finished") =>
          /\ call.res = "Ok"
          /\ call.data = Undisturbed
          /\ Packed => writer = write_to_file_with_progress(builder, 0).w

\* on_entry_finished aborted a pack after the first of two entries
C14_Witness ==
    /\ Packed
    /\ AbortedAt("on_entry_finished")
    /\ Len(builder.files) = 2
    /\ call.res = "Cancelled"
    /\ HookEvents(call.data)[call.arg].entry = 1
    /\ SumBytes(call.data, OpsOf(call.data, "chunk", 1)) > 2 * BUFFER_SIZE


\* A hook is consulted between any two chunks a run transfers
HookBetweenChunks(run) ==
    \A i \in 1..(Len(run.events) - 1) :
        ~(run.events[i].kind = "chunk" /\ run.events[i + 1].kind = "chunk")

\* The chunks a run transferred after the handler began to return Abort
ChunksAfterAbort(run, abort_from) ==
    { i \in 1..Len(run.events) :
        /\ run.events[i].kind = "chunk"
        /\ Len(SelectSeq(SubSeq(run.events, 1, i), IsHook)) >= abort_from }

\* C15: in packing and in unpacking alike a hook is consulted between any
\* two consecutive chunks of payload and between any two entries, so once
\* the handler has begun to return Abort at most one further chunk is
\* transferred.
C15_PerChunkCancellation ==
    Extracted \/ Packed =>
        /\ HookBetweenChunks(call.data)
        /\ call.arg > 0 => Cardinality(ChunksAfterAbort(call.data, call.arg)) <= 1

\* Unpacking consults on_progress after every chunk: no chunk is transferred
\* once the handler has returned Abort
UnpackingStopsAtTheChunk ==
    Extracted =>
        /\ HookBetweenChunks(call.data)
        /\ call.arg > 0 => ChunksAfterAbort(call.data, call.arg) = { }


----------------------------------------------------------------------------
(* Claims about the two sources of an entry's data.                        *)

\* A data write of either kind has returned Ok for a payload of the entry's
\* size
PayloadWritten ==
    /\ last'.op \in DataOps
    /\ last'.res = "Ok"
    /\ Len(last'.source[1]) = last'.entry.size

\* What the claim has a data write append: the payload masked with the
\* cached key from offset 0 when the entry is encrypted, else the payload
Expected(w, entry, data) ==
    IF entry.encrypted /\ w.encryption_key # << >>
    THEN encrypt(data, w.encryption_key[1], 0)
    ELSE data

\* C16: for the same writer, entry and payload, write_file_data_direct and
\* write_file_data return the same result and leave the same writer: the
\* output grown by the payload, masked with the cached key from offset 0 when
\* the entry is encrypted and verbatim otherwise, and the state WritingData.
C16_SourcesEquivalent ==
    [][ PayloadWritten =>
          /\ write_file_data_direct(writer, last'.entry, last'.source[1])
                = write_file_data(writer, last'.entry, last'.source)
          /\ writer'.output = writer.output
                                 \o Expected(writer, last'.entry, last'.source[1])
          /\ writer'.state = "WritingData"
      ]_vars

\* The same for the entries that are not encrypted, and for write_file_data
\* alone on those that are
SourcesEquivalentInTheClear ==
    [][ PayloadWritten /\ (~last'.entry.encrypted \/ last'.op = "write_file_data") =>
          /\ ~last'.entry.encrypted =>
                write_file_data_direct(writer, last'.entry, last'.source[1])
                   = write_file_data(writer, last'.entry, last'.source)
          /\ writer'.output = writer.output
                                 \o Expected(writer, last'.entry, last'.source[1])
          /\ writer'.state = "WritingData"
      ]_vars


----------------------------------------------------------------------------
(* Claims about packing an empty builder.                                  *)

PackedNothing ==
    /\ call.op \in {"write_to_file", "write_to_file_with_progress"}
    /\ builder.files = << >>

\* C17: packing a builder that holds no files, with or without a handler,
\* fails with InvalidFormat; the output file holds no byte, the writer is
\* still Created with no header and no key, and no hook of the handler has
\* been invoked, whatever the handler would have returned.
C17_EmptyBuilderRejected ==
    PackedNothing =>
        /\ call.res = "InvalidFormat"
        /\ writer = NewWriter
        /\ archive = << << >> >>
        /\ Packed => call.data.calls = 0 /\ call.data.events = << >>
                     /\ call.data.res = "InvalidFormat"

\* An empty builder was packed under a handler that aborts at its first
\* invocation
C17_Witness ==
    /\ PackedNothing
    /\ Packed
    /\ call.arg = 1
    /\ call.res = "InvalidFormat"
    /\ writer.state = "Created"


----------------------------------------------------------------------------
(* Claims about looking a path up in an open archive.                      *)

\* The path is not a key of the reader's entry_map
Missing(path) == \A i \in 1..Len(reader.entries) : reader.entries[i].path # path

ReadOps == {"read_file", "read_file_streaming"}

\* C18: read_file and read_file_streaming on a path that is not a key of the
\* lookup map return FileNotFound with no seek and no read of the archive
\* file and no invocation of the callback, whatever the callback would have
\* returned; and contains is false and get_entry is None for the paths that
\* are not keys, and for no other.
C18_LookupMiss ==
    /\ call.op \in ReadOps /\ Missing(call.arg) =>
          /\ call.res = "FileNotFound"
          /\ \A fail_at \in Callbacks :
                LET r == read_file_streaming(reader, call.arg, fail_at)
                IN  r.chunks = << >> /\ r.seeks = 0 /\ r.reads = 0
          /\ call.op = "read_file" => call.data = << >>
          /\ call.op = "read_file_streaming" =>
                call.data = read_file_streaming(reader, call.arg, call.hi)
    /\ call.op \in ReadOps /\ call.res = "FileNotFound" => Missing(call.arg)
    /\ reader.res = "Ok" =>
          \A path \in ReadPaths :
              /\ ~contains(reader, path) <=> Missing(path)
              /\ get_entry(reader, path) = << >> <=> Missing(path)

\* A path that was not packed is read, with a callback that would fail at
\* once, from an archive of two entries
C18_Witness ==
    /\ call.op = "read_file_streaming"
    /\ call.hi = 1
    /\ Len(reader.entries) = 2
    /\ Missing(call.arg)
    /\ call.res = "FileNotFound"
    /\ ~contains(reader, call.arg)


----------------------------------------------------------------------------
(* Claims about duplicate paths.                                           *)

\* The index entries listed under a path
ListedAs(path) == { i \in 1..Len(reader.entries) : reader.entries[i].path = path }

\* The files the builder was given under an archive path
AddedAs(path) ==
    { i \in 1..Len(builder.files) : PathString(builder.files[i].archive_path) = path }

Latest(S) == CHOOSE i \in S : \A j \in S : j <= i

\* A path listed by several index entries has been read
DuplicateRead ==
    /\ call.op = "read_file"
    /\ Cardinality(ListedAs(call.arg)) >= 2

\* The reader's side: the latest entry under the path answers, and every
\* entry is counted
LatestEntryAnswers ==
    /\ get_entry(reader, call.arg) = << reader.entries[Latest(ListedAs(call.arg))] >>
    /\ call.res = "Ok"
    /\ call.data = ContentOf(Latest(ListedAs(call.arg)))
    /\ Len(reader.entries) = Len(builder.files)

\* C19: when several index entries share one normalized path, get_entry and
\* read_file resolve the path to the entry latest in index order, and len()
\* and entries() count every duplicate; the archive being the builder's,
\* what is read is the file added last under that archive path.
C19_LastDuplicateWins ==
    DuplicateRead =>
        /\ LatestEntryAnswers
        /\ AddedAs(call.arg) # { }
        /\ call.data = builder.files[Latest(AddedAs(call.arg))].source[1]

\* The same for builders whose paths are portable; and the reader's side for
\* every builder
LastPortableDuplicateWins ==
    DuplicateRead =>
        /\ LatestEntryAnswers
        /\ PortablePaths(builder.files) =>
              /\ AddedAs(call.arg) # { }
              /\ call.data = builder.files[Latest(AddedAs(call.arg))].source[1]


----------------------------------------------------------------------------
(* Claims about reading an entry that the archive file does not hold in    *)
(* full.                                                                   *)

\* The data of the entry extends past the end of the archive file
PastEnd(entry) == entry.offset + entry.size > Len(reader.file)

\* The entry a read was asked for, as an Option: by index for Pf8Entry::read,
\* by path for the reader; the callback of a streaming read never fails
EntryAsked ==
    IF call.op = "read" THEN << reader.entries[call.arg] >>
    ELSE IF call.op = "read_file" \/ (call.op = "read_file_streaming" /\ call.hi = 0)
    THEN get_entry(reader, call.arg)
    ELSE << >>

\* What a read handed to its caller
Delivered ==
    IF call.op = "read_file_streaming" THEN Flatten(call.data.chunks) ELSE call.data

\* C20: reading an entry whose offset + size extends past the end of the
\* archive fails with Corrupted, hands no data of the entry to the caller,
\* and reads no byte outside the archive.
C20_ReadsBoundsChecked ==
    EntryAsked # << >> /\ PastEnd(EntryAsked[1]) =>
        /\ call.res = "Corrupted"
        /\ Delivered = << >>

\* What the code does: Pf8Entry::read fails with Corrupted and no data.  The
\* reader fails with Io, read_file with no data, read_file_streaming after
\* handing over the buffer-sized chunks the file holds in full, and no more;
\* and it reads an entry of size 0 as empty wherever its offset lies.
ReadsPastEndFail ==
    EntryAsked # << >> /\ PastEnd(EntryAsked[1]) =>
        /\ call.op = "read" => call.res = "Corrupted" /\ call.data = << >>
        /\ call.op # "read" /\ EntryAsked[1].size = 0 =>
              call.res = "Ok" /\ Delivered = << >>
        /\ call.op = "read_file" /\ EntryAsked[1].size > 0 =>
              call.res = "Io" /\ call.data = << >>
        /\ call.op = "read_file_streaming" /\ EntryAsked[1].size > 0 =>
              /\ call.res = "Io"
              /\ Len(Delivered) % BUFFER_SIZE = 0
              /\ Len(Delivered) < EntryAsked[1].size
              /\ EntryAsked[1].offset + Len(Delivered) <= Len(reader.file)
                 \/ Delivered = << >>
              /\ \/ Len(reader.file) < EntryAsked[1].offset + Len(Delivered) + BUFFER_SIZE
                 \/ EntryAsked[1].size < Len(Delivered) + BUFFER_SIZE


----------------------------------------------------------------------------
(* pfs-rs: the output path of a pack.  A path is [dir, name], the name a   *)
(* byte string; disk holds the paths that exist.  The two directories, the *)
(* current one and the one given as output, always exist.                  *)

\* ".pfs" and "root"
PFS_EXT == << 46, 112, 102, 115 >>
ROOT == << 114, 111, 111, 116 >>

\* The decimal digits of a number, as ASCII
RECURSIVE Digits(_)
Digits(i) == IF i < 10 THEN << 48 + i >> ELSE Append(Digits(i \div 10), 48 + (i % 10))

\* The minimum width of {i:03}
NUMBER_WIDTH == 3

\* format!("{i:03}"): the digits, with zeros in front up to three characters
Pad03(i) ==
    LET digits == Digits(i)
    IN  [k \in 1..(NUMBER_WIDTH - Len(digits)) |-> 48] \o digits

\* dir.join(format!("{base}.pfs")) and dir.join(format!("{base}.pfs.{i:03}"))
PlainPfs(dir, base) == [dir |-> dir, name |-> base \o PFS_EXT]
NumberedPfs(dir, base, i) ==
    [dir |-> dir, name |-> base \o PFS_EXT \o << DOT >> \o Pad03(i)]

\* A loop that returns the numbered path without asking whether it exists
NumberedFrom_Unchecked(fs, dir, base, i) == NumberedPfs(dir, base, i)

\* The loop of try_get_next_nonexist_pfs (util.rs:65-73)
RECURSIVE NumberedFrom(_, _, _, _)
NumberedFrom(fs, dir, base, i) ==
    IF NumberedPfs(dir, base, i) \notin fs THEN NumberedPfs(dir, base, i)
    ELSE NumberedFrom(fs, dir, base, i + 1)

\* try_get_next_nonexist_pfs on the file system fs
try_get_next_nonexist_pfs(fs, dir, base) ==
    IF PlainPfs(dir, base) \notin fs THEN PlainPfs(dir, base)
    ELSE NumberedFrom(fs, dir, base, 0)

\* determine_pack_output: specified_output is the Option of [is_dir, path],
\* a directory being named by its dir field
determine_pack_output(fs, specified_output, overwrite, current_dir) ==
    IF specified_output # << >>
    THEN LET output == specified_output[1]
         IN  IF output.is_dir
             THEN IF overwrite THEN PlainPfs(output.path.dir, ROOT)
                  ELSE try_get_next_nonexist_pfs(fs, output.path.dir, ROOT)
             ELSE output.path
    ELSE IF overwrite THEN PlainPfs(current_dir, ROOT)
         ELSE try_get_next_nonexist_pfs(fs, current_dir, ROOT)

----------------------------------------------------------------------------
(* The tool run again and again: it determines the output of a pack and    *)
(* creates it; other files appear in the directories in between.           *)

MaxOnDisk == 4

Dirs == {"cwd", "out"}

\* "root" and "data"
Bases == { ROOT, << 100, 97, 116, 97 >> }

\* The outputs a user names: none, the directory out, the file out/root.pfs,
\* the file cwd/a.pfs
Outputs ==
    { << >>,
      << [is_dir |-> TRUE,  path |-> [dir |-> "out", name |-> << >>]] >>,
      << [is_dir |-> FALSE, path |-> PlainPfs("out", ROOT)] >>,
      << [is_dir |-> FALSE, path |-> [dir |-> "cwd", name |-> << 97 >> \o PFS_EXT]] >> }

\* Files that appear by other hands: numbered ones that leave a gap, and names
\* that only look numbered ("root.pfs.1", "root.pfs.0000")
OtherFiles ==
    { NumberedPfs("out", ROOT, 1), NumberedPfs("cwd", ROOT, 0),
      [dir |-> "out", name |-> ROOT \o PFS_EXT \o << DOT, 49 >>],
      [dir |-> "out", name |-> ROOT \o PFS_EXT \o << DOT, 48, 48, 48, 48 >>] }

CliOps == {"try_get_next_nonexist_pfs", "determine_pack_output"}

TryGetNextNonexistPfs ==
    \E dir \in Dirs, base \in Bases :
        /\ call' = [op |-> "try_get_next_nonexist_pfs", res |-> "Ok",
                    arg |-> [dir |-> dir, base |-> base],
                    data |-> try_get_next_nonexist_pfs(disk, dir, base), hi |-> 0]
        /\ UNCHANGED <<writer, last, builder, archive, reader, kept, disk>>

DeterminePackOutput ==
    \E output \in Outputs, overwrite \in BOOLEAN :
        /\ call' = [op |-> "determine_pack_output", res |-> "Ok",
                    arg |-> [output |-> output, overwrite |-> overwrite],
                    data |-> determine_pack_output(disk, output, overwrite, "cwd"),
                    hi |-> 0]
        /\ UNCHANGED <<writer, last, builder, archive, reader, kept, disk>>

\* builder.write_to_file(&output_file): the output is created, or truncated
CreateOutput ==
    /\ call.op \in CliOps
    /\ Cardinality(disk \cup {call.data}) <= MaxOnDisk
    /\ disk' = disk \cup {call.data}
    /\ call' = [op |-> "write_to_file", res |-> "Ok", arg |-> call.data,
                data |-> << >>, hi |-> 0]
    /\ UNCHANGED <<writer, last, builder, archive, reader, kept>>

\* Another file appears in a directory
OtherFileAppears ==
    \E path \in OtherFiles :
        /\ Cardinality(disk \cup {path}) <= MaxOnDisk
        /\ disk' = disk \cup {path}
        /\ call' = [op |-> "other", res |-> "Ok", arg |-> path, data |-> << >>,
                    hi |-> 0]
        /\ UNCHANGED <<writer, last, builder, archive, reader, kept>>

NextCli == TryGetNextNonexistPfs \/ DeterminePackOutput \/ CreateOutput \/ OtherFileAppears

SpecCli == InitPack /\ [][NextCli]_vars

\* What try_get_next_nonexist_pfs was asked for, when it is what ran
AskedDir ==
    IF call.op = "try_get_next_nonexist_pfs" THEN call.arg.dir
    ELSE IF call.arg.output = << >> THEN "cwd" ELSE call.arg.output[1].path.dir
AskedBase == IF call.op = "try_get_next_nonexist_pfs" THEN call.arg.base ELSE ROOT

\* The path was picked by numbering: by try_get_next_nonexist_pfs itself, or
\* by determine_pack_output without overwrite for a directory or no output
Numbered ==
    \/ call.op = "try_get_next_nonexist_pfs"
    \/ /\ call.op = "determine_pack_output"
       /\ ~call.arg.overwrite
       /\ call.arg.output = << >> \/ call.arg.output[1].is_dir

\* C21: try_get_next_nonexist_pfs(dir, base) returns dir/base.pfs when that
\* path does not exist, and otherwise dir/base.pfs.NNN for the smallest
\* number whose path does not exist; so determine_pack_output without
\* overwrite, for a directory or no output, never returns a path that exists.
C21_NeverAnExistingFile ==
    Numbered =>
        /\ call.data \notin disk
        /\ PlainPfs(AskedDir, AskedBase) \notin disk =>
              call.data = PlainPfs(AskedDir, AskedBase)
        /\ PlainPfs(AskedDir, AskedBase) \in disk =>
              \E n \in 0..MaxOnDisk :
                  /\ call.data = NumberedPfs(AskedDir, AskedBase, n)
                  /\ \A m \in 0..(n - 1) : NumberedPfs(AskedDir, AskedBase, m) \in disk

\* With root.pfs, root.pfs.000 and root.pfs.001 in the directory given as
\* output, the pack goes to root.pfs.002
C21_Witness ==
    /\ call.op = "determine_pack_output"
    /\ Numbered
    /\ {PlainPfs("out", ROOT), NumberedPfs("out", ROOT, 0), NumberedPfs("out", ROOT, 1)}
          \subseteq disk
    /\ call.data = [dir |-> "out", name |-> ROOT \o PFS_EXT \o << DOT, 48, 48, 50 >>]


----------------------------------------------------------------------------
(* The order of the index                                                  *)

\* The names of the index records of the archive just written, in order
IndexNames ==
    LET parsed == parse_entries(archive[1])
    IN  [k \in 1..Len(parsed.entries) |-> parsed.entries[k].name]

JustPacked == call.op = "write_to_file" /\ call.res = "Ok"

\* C22 as stated: in every archive the builder writes, the index records are
\* in ascending byte-wise lexicographic order of their archive path, whatever
\* order the files were added in.
C22_IndexSortedBytewise ==
    JustPacked =>
        \A k \in 1..(Len(IndexNames) - 1) : BytesCmp(IndexNames[k], IndexNames[k + 1]) <= 0

\* C22, amended: the index records are in ascending order of their archive
\* paths compared component by component, each component byte-wise, whatever
\* order the files were added in; files of the same path stay in the order
\* they were added.
C22_IndexSortedByComponents ==
    JustPacked =>
        \E order \in Orders(Len(builder.files)) :
            /\ IndexNames = [k \in 1..Len(builder.files) |->
                                pathbuf_to_pf8_path(builder.files[order[k]].archive_path)]
            /\ \A k \in 1..(Len(builder.files) - 1) :
                   LET c == PathCmp(builder.files[order[k]].archive_path,
                                    builder.files[order[k + 1]].archive_path)
                   IN  c < 0 \/ (c = 0 /\ order[k] < order[k + 1])

\* "a.b" added before "a/b": the index lists a\b first, though a.b is the
\* smaller byte string
C22_Witness ==
    /\ JustPacked
    /\ Len(builder.files) = 2
    /\ builder.files[1].archive_path = << <<97, 46, 98>> >>
    /\ builder.files[2].archive_path = << <<97>>, <<98>> >>
    /\ IndexNames = << <<97, 92, 98>>, <<97, 46, 98>> >>


----------------------------------------------------------------------------
(* Encoding and parsing                                                    *)

\* What parse_entries makes of the header the writer built
ParsedHeader == parse_entries(writer.header_data)

\* C23: parse_entries applied to the bytes write_header emitted returns
\* format PF8 and as many entries as were given, with the same names and
\* sizes in the same order, each with the offset at which its payload will
\* start: the end of the header plus the sizes of the entries before it; and
\* get_index_size returns the index_size that was written.
C23_EncodeThenParse ==
    HeaderJustWritten =>
        /\ ParsedHeader.res = "Ok"
        /\ ParsedHeader.format = "Pf8"
        /\ Len(ParsedHeader.entries) = Len(last.entries)
        /\ \A k \in 1..Len(last.entries) :
               /\ ParsedHeader.entries[k].name = last.entries[k].name
               /\ ParsedHeader.entries[k].size = last.entries[k].size
               /\ ParsedHeader.entries[k].offset =
                      Len(writer.header_data) + SumSizes(last.entries, k - 1)
        /\ get_index_size(writer.header_data).ok
        /\ get_index_size(writer.header_data).v = LayoutIndexSize(last.entries)
        /\ get_index_size(writer.header_data).v + INDEX_DATA_START = Len(writer.header_data)

\* A header of two entries, the first with a payload, parsed back
C23_Witness ==
    /\ HeaderJustWritten
    /\ Len(last.entries) = 2
    /\ last.entries[1].size = 3
    /\ last.entries[1].name # last.entries[2].name
    /\ Len(ParsedHeader.entries) = 2
    /\ ParsedHeader.entries[2].offset = ParsedHeader.entries[1].offset + 3


----------------------------------------------------------------------------
(* The u32 arithmetic of packing.  The width is scaled to eight bits, so    *)
(* that sizes of a few hundred stand for files of a few GiB; a file is      *)
(* [archive_path, size], the size as fs::metadata reports it (u64).         *)

\* u32::MAX at the scaled width
U32_MAX == 255

\* n as u32
AsU32(n) == n % (U32_MAX + 1)

\* a + b and a += b on u32: out of range, the addition panics in a build with
\* overflow checks and wraps in one without
AddU32(a, b, overflow_checks) ==
    IF a + b <= U32_MAX THEN [ok |-> TRUE, v |-> a + b]
    ELSE IF overflow_checks THEN [ok |-> FALSE, v |-> 0]
    ELSE [ok |-> TRUE, v |-> AsU32(a + b)]

\* The loop of write_to_writer over the sorted files (builder.rs:215-233):
\* acc is [res, entries, total_data_size]
RECURSIVE SizeEntries(_, _, _)
SizeEntries(files, acc, overflow_checks) ==
    IF files = << >> THEN acc
    ELSE IF Head(files).size > U32_MAX THEN [acc EXCEPT !.res = "InvalidFormat"]
    ELSE LET size  == AsU32(Head(files).size)
             entry == NewEntry(Head(files).archive_path, acc.total_data_size, size,
                               UNENCRYPTED_FILTER)
             total == AddU32(acc.total_data_size, size, overflow_checks)
         IN  IF ~total.ok THEN [acc EXCEPT !.res = "Panic"]
             ELSE SizeEntries(Tail(files),
                      [ res             |-> "Ok",
                        entries         |-> Append(acc.entries, entry),
                        total_data_size |-> total.v ],
                      overflow_checks)

\* The offsets write_header records (writer.rs:65-106): acc is [res,
\* file_offset, offsets]; file_offset += entry.size() runs after each record,
\* the last one too
RECURSIVE RecordOffsets(_, _, _)
RecordOffsets(entries, acc, overflow_checks) ==
    IF entries = << >> THEN acc
    ELSE LET next == AddU32(acc.file_offset, Head(entries).size, overflow_checks)
         IN  IF ~next.ok THEN [acc EXCEPT !.res = "Panic"]
             ELSE RecordOffsets(Tail(entries),
                      [ res         |-> "Ok",
                        file_offset |-> next.v,
                        offsets     |-> Append(acc.offsets, acc.file_offset) ],
                      overflow_checks)

\* index_size as u32, and the offsets counted from index_size + 7
HeaderOffsets(entries, overflow_checks) ==
    LET index_size == AsU32(IndexSizeOf(entries))
        start      == AddU32(index_size, INDEX_DATA_START, overflow_checks)
    IN  IF ~start.ok THEN [res |-> "Panic", file_offset |-> 0, offsets |-> << >>]
        ELSE RecordOffsets(entries,
                 [res |-> "Ok", file_offset |-> start.v, offsets |-> << >>],
                 overflow_checks)

\* Where the payloads are in the file: write_header writes the whole header,
\* and each write_file_data appends entry.size bytes
PayloadPositions(entries) ==
    [k \in 1..Len(entries) |-> Len(BuildHeader(entries)) + SumSizes(entries, k - 1)]

\* write_to_writer on files given by their sizes: [res, recorded, written]
write_to_writer_sized(files, overflow_checks) ==
    IF files = << >> THEN [res |-> "InvalidFormat", recorded |-> << >>, written |-> << >>]
    ELSE LET sized == SizeEntries(files,
                          [res |-> "Ok", entries |-> << >>, total_data_size |-> 0],
                          overflow_checks)
         IN  IF sized.res # "Ok"
             THEN [res |-> sized.res, recorded |-> << >>, written |-> << >>]
             ELSE LET header == HeaderOffsets(sized.entries, overflow_checks)
                  IN  IF header.res # "Ok"
                      THEN [res |-> header.res, recorded |-> << >>, written |-> << >>]
                      ELSE [ res      |-> "Ok",
                             recorded |-> header.offsets,
                             written  |-> PayloadPositions(sized.entries) ]

MaxSized == 3

\* Sizes of source files: empty, in range, the largest in range, and too large
FileSizes == {0, 100, 200, U32_MAX, U32_MAX + 1}

\* The files "a", "b", "c", ... of the given sizes, as sorted_indices orders them
SizedFiles(sizes) ==
    [k \in 1..Len(sizes) |-> [archive_path |-> << << 96 + k >> >>, size |-> sizes[k]]]

\* The files are there, of any sizes, and the build is one with overflow
\* checks or one without
InitSized ==
    /\ builder = NewBuilder
    /\ writer = NewWriter
    /\ last = LastCall("create", "Ok", << >>, NoEntry, << >>)
    /\ archive = << >>
    /\ reader = NoReader
    /\ call \in { [op |-> "files", res |-> "Ok",
                   arg |-> [sizes |-> sizes, overflow_checks |-> overflow_checks],
                   data |-> << >>, hi |-> 0] :
                     sizes \in SeqsUpTo(FileSizes, MaxSized), overflow_checks \in BOOLEAN }
    /\ kept = << >>
    /\ disk = { }

WriteToWriterSized ==
    /\ call.op = "files"
    /\ call' = [call EXCEPT !.op = "write_to_writer",
                            !.data = write_to_writer_sized(SizedFiles(call.arg.sizes),
                                                           call.arg.overflow_checks)]
    /\ UNCHANGED <<writer, last, builder, archive, reader, kept, disk>>

NextSized == WriteToWriterSized

SpecSized == InitSized /\ [][NextSized]_vars

\* The file list is one write_to_writer accepts: not empty, every file at
\* most u32::MAX bytes
Accepted ==
    /\ call.op = "write_to_writer"
    /\ call.arg.sizes # << >>
    /\ \A k \in 1..Len(call.arg.sizes) : call.arg.sizes[k] <= U32_MAX

\* C24: for any file list accepted by write_to_writer (every file at most
\* u32::MAX bytes, a larger file rejected with InvalidFormat) the u32 offset
\* recorded for each entry is the absolute byte position at which the entry's
\* payload starts in the output file; the arithmetic neither wraps nor panics.
C24_OffsetsExact ==
    /\ Accepted =>
           /\ call.data.res = "Ok"
           /\ call.data.recorded = call.data.written
    /\ (call.op = "write_to_writer"
          /\ \E k \in 1..Len(call.arg.sizes) :
                 /\ call.arg.sizes[k] > U32_MAX
                 /\ \A j \in 1..(k - 1) : call.arg.sizes[j] = 0) =>
           call.data.res = "InvalidFormat"

\* The header and the payloads together
AcceptedEntries ==
    SizeEntries(SizedFiles(call.arg.sizes),
                [res |-> "Ok", entries |-> << >>, total_data_size |-> 0], FALSE).entries
TotalLength ==
    Len(BuildHeader(AcceptedEntries)) + SumSizes(AcceptedEntries, Len(AcceptedEntries))

\* What holds: when the whole archive is at most u32::MAX bytes long, the
\* recorded offsets are the positions of the payloads
OffsetsExactWithinRange ==
    (Accepted /\ TotalLength <= U32_MAX) =>
        /\ call.data.res = "Ok"
        /\ call.data.recorded = call.data.written

OffsetsExactWithinRange_Witness ==
    /\ Accepted /\ TotalLength <= U32_MAX
    /\ Len(call.arg.sizes) = 2
    /\ call.arg.sizes[1] = 100
    /\ call.data.recorded[2] = call.data.recorded[1] + 100


----------------------------------------------------------------------------
(* The cached key: the writer driven call by call, and the archive it has  *)
(* finalized opened and read.                                              *)

\* read_file of a path the reader lists
ReadListed ==
    \E index \in 1..Len(reader.entries) :
        /\ reader.res = "Ok"
        /\ call.op = "open"
        /\ LET r == read_file(reader, reader.entries[index].path)
           IN  call' = [op |-> "read_file", res |-> r.res,
                        arg |-> reader.entries[index].path, data |-> r.data, hi |-> 0]
        /\ UNCHANGED <<writer, last, builder, archive, reader, kept, disk>>

\* read_file_streaming of a path the reader lists
ReadListedStreaming ==
    \E index \in 1..Len(reader.entries), fail_at \in Callbacks :
        /\ reader.res = "Ok"
        /\ call.op = "open"
        /\ LET r == read_file_streaming(reader, reader.entries[index].path, fail_at)
           IN  call' = [op |-> "read_file_streaming", res |-> r.res,
                        arg |-> reader.entries[index].path, data |-> r, hi |-> fail_at]
        /\ UNCHANGED <<writer, last, builder, archive, reader, kept, disk>>

\* Pf8Reader::open_with_unencrypted_patterns on the file the writer has just
\* finalized
OpenWritten ==
    /\ writer.state = "Finalized"
    /\ last.op = "finalize"
    /\ LET r == open_with_unencrypted_patterns(writer.output, WriterPatterns)
       IN  /\ reader' = r
           /\ archive' = << writer.output >>
           /\ call' = [op |-> "open", res |-> r.res, arg |-> WriterPatterns,
                       data |-> << >>, hi |-> 0]
    /\ UNCHANGED <<writer, last, builder, kept, disk>>

NextKey ==
    \/ WriteHeader \/ WriteFileDataDirect \/ WriteFileData \/ Finalize
    \/ OpenWritten \/ ReadListed \/ ExtractAll

SpecKey == Init /\ [][NextKey]_vars

\* The key of the index of a header: the digest of the bytes from 0x07 on
KeyOfHeader(header) == << Sha1(SubSeq(header, 8, 7 + LE32At(header, 3))) >>

\* The writer's cached key is absent iff the writer is Created, and
\* otherwise it is the key of the header the writer wrote
KeyCachedInState ==
    /\ writer.encryption_key = << >> <=> writer.state = "Created"
    /\ writer.state # "Created" => writer.encryption_key = KeyOfHeader(writer.header_data)

\* The writer's key changes only in a successful write_header of a Created
\* writer; write_file_data, write_file_data_direct and finalize leave it; a
\* reader's key changes only in open
KeyCachedInStep ==
    /\ writer'.encryption_key # writer.encryption_key =>
           /\ writer.state = "Created"
           /\ last'.op = "write_header" /\ last'.res = "Ok"
           /\ writer'.encryption_key = KeyOfHeader(writer'.header_data)
    /\ last' # last /\ last'.op \in {"write_file_data", "write_file_data_direct", "finalize"} =>
           writer'.encryption_key = writer.encryption_key
    /\ reader' # reader => call'.op = "open"

\* C25: the key is computed exactly once and cached: in every reachable
\* writer state the cached key is absent iff the state is Created; it is set
\* by the one successful write_header from the header bytes just written, and
\* no later write_file_data, write_file_data_direct or finalize call changes
\* it; a reader's key is fixed at open and no read or extract call changes it.
C25_KeyComputedOnce == []KeyCachedInState /\ [][KeyCachedInStep]_vars

\* A writer that has written a header and the payload of an encrypted entry,
\* finalized, its archive opened and the entry read back: the keys of the
\* writer and of the reader are the key of the header
C25_Witness ==
    /\ writer.state = "Finalized"
    /\ Len(writer.output) > Len(writer.header_data)
    /\ reader.res = "Ok"
    /\ call.op = "read_file" /\ call.res = "Ok" /\ call.data # << >>
    /\ writer.encryption_key = KeyOfHeader(writer.header_data)
    /\ reader.encryption_key = writer.encryption_key


----------------------------------------------------------------------------
(* The events of a successful extraction                                   *)

ExtractedAll == Extracted /\ call.res = "Ok"

\* The hooks and file operations of the run, and those on behalf of an entry
RunEvents == call.data.events
EventsOf(index) == { k \in 1..Len(RunEvents) : RunEvents[k].entry = index }
First(S) == CHOOSE k \in S : \A j \in S : k <= j
Final(S) == CHOOSE k \in S : \A j \in S : j <= k

IsHookNamed(event, name) == event.kind = "hook" /\ event.name = name

\* The events of entry i are on_entry_started(name_i), then file operations
\* on its output and one or more on_progress with current_file = name_i,
\* then on_entry_finished(name_i)
EntryEventsInOrder(i) ==
    LET S    == EventsOf(i)
        name == reader.entries[i].path
    IN  /\ S # { }
        /\ IsHookNamed(RunEvents[First(S)], "on_entry_started")
        /\ RunEvents[First(S)].arg = name
        /\ IsHookNamed(RunEvents[Final(S)], "on_entry_finished")
        /\ RunEvents[Final(S)].arg = name
        /\ \A k \in S \ {First(S), Final(S)} :
               \/ RunEvents[k].kind \in {"create", "chunk"} /\ RunEvents[k].name = name
               \/ /\ IsHookNamed(RunEvents[k], "on_progress")
                  /\ RunEvents[k].arg.current_file = name
        /\ \E k \in S : IsHookNamed(RunEvents[k], "on_progress")
        /\ \E k \in S : RunEvents[k].kind = "create"

\* C26: in a successful extract_all_with_progress over n entries the handler
\* sees on_started once, then for each entry in index order
\* on_entry_started(name_i), one or more on_progress with current_file =
\* name_i and on_entry_finished(name_i), and finally on_finished once; the
\* events of different entries never interleave, and the output file of
\* entry i is created only after on_entry_started(name_i) was consulted.
C26_EventSequence ==
    ExtractedAll =>
        /\ Len(RunEvents) >= 2
        /\ IsHookNamed(RunEvents[1], "on_started")
        /\ IsHookNamed(RunEvents[Len(RunEvents)], "on_finished")
        /\ \A k \in 2..(Len(RunEvents) - 1) :
               /\ RunEvents[k].entry \in 1..Len(reader.entries)
               /\ ~IsHookNamed(RunEvents[k], "on_started")
               /\ ~IsHookNamed(RunEvents[k], "on_finished")
        /\ \A k \in 2..(Len(RunEvents) - 2) : RunEvents[k].entry <= RunEvents[k + 1].entry
        /\ \A i \in 1..Len(reader.entries) : EntryEventsInOrder(i)

\* Two entries extracted, the first in several chunks
C26_Witness ==
    /\ ExtractedAll
    /\ Len(reader.entries) = 2
    /\ reader.entries[1].size > BUFFER_SIZE
    /\ reader.entries[2].size = 0
    /\ Cardinality({ k \in EventsOf(1) : IsHookNamed(RunEvents[k], "on_progress") }) = 3
    /\ Cardinality({ k \in EventsOf(2) : IsHookNamed(RunEvents[k], "on_progress") }) = 1


----------------------------------------------------------------------------
(* The progress reports of an extraction                                   *)

\* The ProgressInfo of the on_progress events of the run, in order
IsProgress(event) == IsHookNamed(event, "on_progress")
Reports == SelectSeq(RunEvents, IsProgress)

\* The sum of all entry sizes, and the number of entries
TotalBytes == SumSizes(reader.entries, Len(reader.entries))
TotalFiles == Len(reader.entries)

\* C30: across the on_progress events of one extract_all_with_progress run,
\* processed_bytes never decreases and never exceeds total_bytes, the sum of
\* all entry sizes; processed_files is the 1-based index of the entry being
\* extracted and never exceeds total_files; and when the run succeeds the
\* last on_progress event reports processed_bytes = total_bytes and
\* processed_files = total_files.
C30_ProgressMonotone ==
    Extracted =>
        /\ \A k \in 1..Len(Reports) :
               /\ Reports[k].arg.total_bytes = TotalBytes
               /\ Reports[k].arg.total_files = TotalFiles
               /\ Reports[k].arg.processed_bytes <= TotalBytes
               /\ Reports[k].arg.processed_files = Reports[k].entry
               /\ Reports[k].arg.processed_files \in 1..TotalFiles
               /\ Reports[k].arg.current_file = reader.entries[Reports[k].entry].path
               /\ Reports[k].arg.processed_bytes =
                      SumSizes(reader.entries, Reports[k].entry - 1)
                        + SumBytes(call.data,
                                   { j \in OpsOf(call.data, "chunk", Reports[k].entry) :
                                       \E h \in 1..Len(RunEvents) :
                                           /\ j < h
                                           /\ RunEvents[h] = Reports[k]
                                           /\ \A g \in 1..(h - 1) : RunEvents[g] # Reports[k] })
        /\ \A k \in 1..(Len(Reports) - 1) :
               /\ Reports[k].arg.processed_bytes <= Reports[k + 1].arg.processed_bytes
               /\ Reports[k].arg.processed_files <= Reports[k + 1].arg.processed_files
        /\ (call.res = "Ok" /\ Reports # << >>) =>
               /\ Reports[Len(Reports)].arg.processed_bytes = TotalBytes
               /\ Reports[Len(Reports)].arg.processed_files = TotalFiles

\* Two entries extracted, the second in several chunks: the reports go from
\* the size of the first entry up to the total
C30_Witness ==
    /\ ExtractedAll
    /\ Len(reader.entries) = 2
    /\ reader.entries[1].size = 1
    /\ reader.entries[2].size > 2 * BUFFER_SIZE
    /\ Len(Reports) = 4
    /\ Reports[1].arg.processed_bytes = 1
    /\ Reports[2].arg.processed_bytes = 1 + BUFFER_SIZE
    /\ Reports[4].arg.processed_bytes = TotalBytes
    /\ Reports[4].arg.processed_files = 2


----------------------------------------------------------------------------
(* Streaming reads                                                         *)

\* A streaming read of an entry the archive lists
StreamedEntry ==
    /\ call.op = "read_file_streaming"
    /\ contains(reader, call.arg)

\* The entry read, the payload read_file returns for it, and the number of
\* callbacks its size asks for: one up to a buffer, else ceil(size / buffer)
Streamed == get_entry(reader, call.arg)[1]
WholePayload == read_file(reader, call.arg).data
CallbacksDue ==
    IF Streamed.size <= BUFFER_SIZE THEN 1
    ELSE (Streamed.size + BUFFER_SIZE - 1) \div BUFFER_SIZE

\* The k-th buffer-sized piece of the payload
PieceOf(payload, k) ==
    SubSeq(payload, (k - 1) * BUFFER_SIZE + 1, Min(k * BUFFER_SIZE, Len(payload)))

\* C27: read_file_streaming invokes the callback exactly once, with the whole
\* (possibly empty) decrypted payload, when the entry size is at most the
\* buffer size, and exactly ceil(size / buffer size) times with consecutive
\* decrypted chunks otherwise; the concatenation of the chunks is the result
\* of read_file; when a callback invocation returns an error no further
\* callback is invoked and that error is returned.
C27_StreamingChunks ==
    StreamedEntry =>
        LET failing == call.hi \in 1..CallbacksDue
            invoked == IF failing THEN call.hi ELSE CallbacksDue
        IN  /\ read_file(reader, call.arg).res = "Ok"
            /\ Len(WholePayload) = Streamed.size
            /\ call.data.res = IF failing THEN "Callback" ELSE "Ok"
            /\ Len(call.data.chunks) = invoked
            /\ \A k \in 1..invoked : call.data.chunks[k] = PieceOf(WholePayload, k)
            /\ ~failing => Flatten(call.data.chunks) = WholePayload

\* An encrypted entry of more than two buffers read in three callbacks
C27_Witness ==
    /\ StreamedEntry
    /\ Streamed.encrypted
    /\ Streamed.size > 2 * BUFFER_SIZE
    /\ call.data.res = "Ok"
    /\ Len(call.data.chunks) = 3
    /\ Len(call.data.chunks[3]) = 1

\* The callback fails at its second invocation and is not invoked a third time
C27_WitnessCallbackError ==
    /\ StreamedEntry
    /\ Streamed.size > 2 * BUFFER_SIZE
    /\ call.hi = 2
    /\ call.data.res = "Callback"
    /\ Len(call.data.chunks) = 2


----------------------------------------------------------------------------
(* The layout of a packed archive                                          *)

\* write_to_writer, plain or with progress, has just returned Ok
PackedOk ==
    /\ call.op \in {"write_to_file", "write_to_file_with_progress"}
    /\ call.res = "Ok"

\* The index of the archive written, and its index_size
WrittenIndex == parse_entries(archive[1]).entries
WrittenIndexSize == get_index_size(archive[1]).v

\* The bytes the index announces for its k-th record
RangeOf(k) ==
    SubSeq(archive[1], WrittenIndex[k].offset + 1,
           WrittenIndex[k].offset + WrittenIndex[k].size)

\* The payload of the k-th file in archive order, masked when its entry is
\* encrypted
StoredPayload(k) ==
    IF PackedEntry(k).encrypted
    THEN MaskWhole(PackedFile(k).source[1], writer.encryption_key[1])
    ELSE PackedFile(k).source[1]

\* C28: whenever write_to_writer, plain or with progress, returns Ok, the
\* writer is Finalized, the output is 7 + index_size + the sum of all entry
\* sizes long, and the byte ranges [offset_i, offset_i + size_i) of the index
\* follow each other without gap or overlap in index order from the end of
\* the index, each holding exactly the (possibly masked) payload of entry i;
\* every write_file_data of the run grew the output by exactly entry.size.
C28_PackedLayout ==
    PackedOk =>
        /\ writer.state = "Finalized"
        /\ archive[1] = writer.output
        /\ Len(WrittenIndex) = Len(builder.files)
        /\ Len(archive[1]) =
               INDEX_DATA_START + WrittenIndexSize + SumSizes(WrittenIndex, Len(WrittenIndex))
        /\ WrittenIndex[1].offset = INDEX_DATA_START + WrittenIndexSize
        /\ \A k \in 1..(Len(WrittenIndex) - 1) :
               WrittenIndex[k + 1].offset = WrittenIndex[k].offset + WrittenIndex[k].size
        /\ \A k \in 1..Len(WrittenIndex) :
               /\ WrittenIndex[k].size = Len(PackedFile(k).source[1])
               /\ RangeOf(k) = StoredPayload(k)
        /\ call.op = "write_to_file_with_progress" =>
               \A k \in 1..Len(WrittenIndex) :
                   SumBytes(call.data, OpsOf(call.data, "chunk", k)) = WrittenIndex[k].size

\* Two files packed with progress, of five bytes and of one
C28_Witness ==
    /\ PackedOk
    /\ call.op = "write_to_file_with_progress"
    /\ Len(WrittenIndex) = 2
    /\ WrittenIndex[1].size = 5
    /\ WrittenIndex[2].size = 1
    /\ WrittenIndex[2].offset = WrittenIndex[1].offset + 5
    /\ RangeOf(1) # PackedFile(1).source[1]


----------------------------------------------------------------------------
(* Archives of either format, intact or damaged, opened and read           *)

NextRead == Open \/ ReadListed \/ ReadListedStreaming \/ ExtractAll

SpecRead == InitParse /\ [][NextRead]_vars

IsPf8File == Len(archive[1]) >= 3 /\ SubSeq(archive[1], 1, 3) = PF8_MAGIC
IsPf6File == Len(archive[1]) >= 3 /\ SubSeq(archive[1], 1, 3) = PF6_MAGIC

\* C29: for every reader returned by open, an entry is flagged encrypted
\* only if the reader holds a key: a PF6 reader holds no key and lists no
\* encrypted entry, a PF8 reader always holds a key; so read_file,
\* read_file_streaming and extract_all never return the Crypto error, and
\* is_encrypted() is true exactly for PF8 archives.
C29_EncryptedOnlyWithKey ==
    /\ reader.res = "Ok" =>
           /\ IsPf6File \/ IsPf8File
           /\ \A k \in 1..Len(reader.entries) :
                  reader.entries[k].encrypted => reader.encryption_key # << >>
           /\ IsPf6File =>
                  /\ reader.encryption_key = << >>
                  /\ \A k \in 1..Len(reader.entries) : ~reader.entries[k].encrypted
           /\ IsPf8File => reader.encryption_key # << >>
           /\ reader_is_encrypted(reader) <=> IsPf8File
    /\ call.op \in {"read_file", "read_file_streaming", "extract_all"} =>
           call.res # "Crypto"

\* A PF6 archive opened and an entry of it read, which comes back as stored
C29_Witness ==
    /\ IsPf6File
    /\ reader.res = "Ok"
    /\ call.op = "read_file" /\ call.res = "Ok"
    /\ call.data = << 7 >>
    /\ ~reader_is_encrypted(reader)

\* A PF8 archive opened and an encrypted entry of it read
C29_WitnessPf8 ==
    /\ IsPf8File
    /\ reader.res = "Ok"
    /\ call.op = "read_file" /\ call.res = "Ok"
    /\ call.data # << 7 >>
    /\ reader_is_encrypted(reader)

====
